---------------------------- MODULE Spec2Model ----------------------------
(* Platform detection and event normalisation engine of ga4-logger.py:     *)
(* the detector with its cache, the server-side tracking scorer, the event *)
(* handler dispatch, the event record builder and the two hooks (request,  *)
(* response) that drive them.                                              *)
(* Strings are TLA+ strings; Len, SubSeq and \o act on them as on Python   *)
(* str.  A parameter map (dict) is a function from keys to values.         *)
EXTENDS Integers, Sequences, FiniteSets, TLC

(***************************************************************************)
(* Python str and dict primitives                                          *)
(***************************************************************************)
\* s.startswith(p)
StartsWith(s, p) == Len(p) <= Len(s) /\ SubSeq(s, 1, Len(p)) = p

\* s.endswith(p)
EndsWith(s, p) ==
    Len(p) <= Len(s) /\ SubSeq(s, Len(s) - Len(p) + 1, Len(s)) = p

\* p in s
Contains(s, p) ==
    \E i \in 0..(Len(s) - Len(p)) : SubSeq(s, i + 1, i + Len(p)) = p

Digits == {"0", "1", "2", "3", "4", "5", "6", "7", "8", "9"}

LowerLetters ==
    {"a", "b", "c", "d", "e", "f", "g", "h", "i", "j", "k", "l", "m",
     "n", "o", "p", "q", "r", "s", "t", "u", "v", "w", "x", "y", "z"}

\* every character of s[i..j] is in set cs (true of the empty range)
AllIn(s, i, j, cs) == \A k \in i..j : SubSeq(s, k, k) \in cs

\* s.isdigit(): non-empty and all digits
IsDigit(s) == Len(s) > 0 /\ AllIn(s, 1, Len(s), Digits)

\* d.get(k, dflt)
Get(d, k, dflt) == IF k \in DOMAIN d THEN d[k] ELSE dflt

\* the empty dict
EmptyDict == [k \in {} |-> ""]

\* d.update(e): e's entries win
Update(d, e) == e @@ d

\* the elements of a list, as a set
Range(seq) == {seq[i] : i \in DOMAIN seq}

(***************************************************************************)
(* Configuration: the scorer's indicator lists (config.py defaults)        *)
(***************************************************************************)
ga4_params == <<"en", "cid", "sid", "_p", "dl", "dr", "dt">>

consent_params == <<"gcs", "dma", "dma_cps", "gdpr", "gdpr_consent">>

gtm_id_prefixes == <<"GTM-", "G-", "AW-", "DC-">>

tracking_id_prefixes == <<"G-", "GA-", "GTM-", "AW-", "DC-">>

eventParams ==
    <<"event", "event_name", "en", "ev", "action", "event_action",
      "category", "event_category">>

trackingParams ==
    <<"track", "tracking", "pixel", "pixel_id", "id", "user_id", "uid",
      "client_id", "cid">>

sessionParams == <<"session", "session_id", "sid", "visit", "visit_id", "s">>

valueParams == <<"value", "revenue", "price", "amount", "val", "total">>

ecommerceParams ==
    <<"currency", "item_id", "product_id", "sku", "quantity",
      "product_name", "item_name">>

timestampParams == <<"timestamp", "time", "t", "_p", "ts">>

serverGtmParams ==
    <<"gtm", "container_id", "gtm_container", "server_container_url">>

(***************************************************************************)
(* Platform Registry (PLATFORMS): config.json is not part of the sources,  *)
(* so a representative table is given: one entry per platform that has an  *)
(* extraction strategy, plus one (TikTok) that uses the default strategy.  *)
(* PlatformNames is the table order (dict order of PLATFORMS).             *)
(***************************************************************************)
PlatformNames ==
    <<"GA4", "Google Ads", "Facebook", "DoubleClick", "LinkedIn",
      "Pinterest", "Microsoft/Bing", "Microsoft Clarity", "Taboola",
      "Privacy Sandbox", "Google Consent Collection",
      "Consent Management Platform", "sGTM", "TikTok">>

PlatformConfig(name, hosts, paths, param_map, pixel_id_key, event_name_key) ==
    [name |-> name, hosts |-> hosts, paths |-> paths, param_map |-> param_map,
     pixel_id_key |-> pixel_id_key, event_name_key |-> event_name_key]

PLATFORMS ==
    [n \in Range(PlatformNames) |->
      CASE n = "GA4" ->
             PlatformConfig(n, {"www.google-analytics.com"},
                 {"/g/collect", "/gtag/js"},
                 ("tid" :> "tracking_id") @@ ("en" :> "event_name")
                   @@ ("dl" :> "page_url"),
                 "tid", "en")
        [] n = "Google Ads" ->
             PlatformConfig(n, {"www.googleadservices.com", "www.google.com"},
                 {"/pagead/conversion/", "/pagead/1p-conversion/"},
                 ("label" :> "conversion_label") @@ ("gcs" :> "consent_state"),
                 "id", "en")
        [] n = "Facebook" ->
             PlatformConfig(n, {"www.facebook.com"}, {"/tr"},
                 ("id" :> "pixel_id") @@ ("ev" :> "event_name")
                   @@ ("cd[value]" :> "value") @@ ("cd[currency]" :> "currency"),
                 "id", "ev")
        [] n = "DoubleClick" ->
             PlatformConfig(n, {"ad.doubleclick.net"},
                 {"/activity", "/ddm/activity/"},
                 ("src" :> "advertiser_id") @@ ("ord" :> "order_id"),
                 "src", "type")
        [] n = "LinkedIn" ->
             PlatformConfig(n, {"px.ads.linkedin.com"},
                 {"/collect", "/attribution_trigger"},
                 ("pid" :> "partner_id") @@ ("fmt" :> "format")
                   @@ ("url" :> "page_url"),
                 "pid", "conversionId")
        [] n = "Pinterest" ->
             PlatformConfig(n, {"ct.pinterest.com"}, {"/v3/", "/user/"},
                 ("tid" :> "tag_id") @@ ("event" :> "event_name"),
                 "tid", "event")
        [] n = "Microsoft/Bing" ->
             PlatformConfig(n, {"bat.bing.com"}, {"/action/", "/bat.js"},
                 ("ti" :> "tag_id") @@ ("gv" :> "goal_value")
                   @@ ("gc" :> "goal_currency"),
                 "ti", "evt")
        [] n = "Microsoft Clarity" ->
             PlatformConfig(n, {"www.clarity.ms"}, {"/collect"},
                 ("id" :> "project_id"), "id", "t")
        [] n = "Taboola" ->
             PlatformConfig(n, {"trc.taboola.com"}, {"/trc/"},
                 ("id" :> "account_id") @@ ("val" :> "value"),
                 "id", "name")
        [] n = "Privacy Sandbox" ->
             PlatformConfig(n, {}, {"/privacy-sandbox", "/privacy_sandbox"},
                 ("id" :> "pixel_id"), "id", "en")
        [] n = "Google Consent Collection" ->
             PlatformConfig(n, {}, {"/ccm/collect"},
                 ("gcs" :> "consent_state"), "gtm", "en")
        [] n = "Consent Management Platform" ->
             PlatformConfig(n, {"cdn.cookielaw.org"}, {"/consent/"},
                 ("v" :> "version"), "id", "event")
        [] n = "sGTM" ->
             PlatformConfig(n, {}, {},
                 ("tid" :> "tracking_id") @@ ("en" :> "event_name"),
                 "tid", "en")
        [] OTHER ->
             PlatformConfig(n, {"analytics.tiktok.com"}, {"/api/v2/pixel"},
                 ("pixel_code" :> "pixel_id") @@ ("event" :> "event_name"),
                 "pixel_code", "event")]

\* config.get_all_hosts(), get_all_paths()
ALL_HOSTS == UNION {PLATFORMS[n].hosts : n \in Range(PlatformNames)}

ALL_PATHS == UNION {PLATFORMS[n].paths : n \in Range(PlatformNames)}

(***************************************************************************)
(* Server-side tracking scorer                                             *)
(***************************************************************************)
\* sum(1 for p in indicators if p in params): one per list entry
_count_matching_params(params, indicators) ==
    Cardinality({i \in DOMAIN indicators : indicators[i] \in DOMAIN params})

_has_any_params(params, indicators) ==
    \E i \in DOMAIN indicators : indicators[i] \in DOMAIN params

\* truthiness of a bool used as a summand guard
Add(cond, w) == IF cond THEN w ELSE 0

\* variant of _calculate_sgtm_score: exactly 3 GA4-style params instead of >= 3
_calculate_sgtm_score_ga4_eq(params, has_gtm_container, has_tracking_id) ==
      Add(has_gtm_container, 4)
    + Add(has_tracking_id, 2)
    + Add(_count_matching_params(params, ga4_params) = 3, 2)
    + Add(_has_any_params(params, consent_params), 1)
    + Add(_count_matching_params(params, serverGtmParams) >= 1, 2)
    + Add(_has_any_params(params, eventParams), 3)
    + Add(_count_matching_params(params, trackingParams) >= 2, 2)
    + Add(_has_any_params(params, sessionParams), 1)
    + Add(_has_any_params(params, valueParams), 1)
    + Add(_count_matching_params(params, ecommerceParams) >= 2, 2)
    + Add(_has_any_params(params, timestampParams), 1)
    + Add("en" \in DOMAIN params /\ "cid" \in DOMAIN params, 1)
    + Add("gcs" \in DOMAIN params, 1)

\* variant of _calculate_sgtm_score: no weight for the container id
_calculate_sgtm_score_nocontainer(params, has_gtm_container, has_tracking_id) ==
      Add(has_tracking_id, 2)
    + Add(_count_matching_params(params, ga4_params) >= 3, 2)
    + Add(_has_any_params(params, consent_params), 1)
    + Add(_count_matching_params(params, serverGtmParams) >= 1, 2)
    + Add(_has_any_params(params, eventParams), 3)
    + Add(_count_matching_params(params, trackingParams) >= 2, 2)
    + Add(_has_any_params(params, sessionParams), 1)
    + Add(_has_any_params(params, valueParams), 1)
    + Add(_count_matching_params(params, ecommerceParams) >= 2, 2)
    + Add(_has_any_params(params, timestampParams), 1)
    + Add("en" \in DOMAIN params /\ "cid" \in DOMAIN params, 1)
    + Add("gcs" \in DOMAIN params, 1)

_calculate_sgtm_score(params, has_gtm_container, has_tracking_id) ==
      Add(has_gtm_container, 4)
    + Add(has_tracking_id, 2)
    + Add(_count_matching_params(params, ga4_params) >= 3, 2)
    + Add(_has_any_params(params, consent_params), 1)
    + Add(_count_matching_params(params, serverGtmParams) >= 1, 2)
    + Add(_has_any_params(params, eventParams), 3)
    + Add(_count_matching_params(params, trackingParams) >= 2, 2)
    + Add(_has_any_params(params, sessionParams), 1)
    + Add(_has_any_params(params, valueParams), 1)
    + Add(_count_matching_params(params, ecommerceParams) >= 2, 2)
    + Add(_has_any_params(params, timestampParams), 1)
    + Add("en" \in DOMAIN params /\ "cid" \in DOMAIN params, 1)
    + Add("gcs" \in DOMAIN params, 1)

\* bool(gtm_id and (any prefix matches or len(gtm_id) > 10))
has_gtm_container(params) ==
    LET gtm_id == Get(params, "gtm", "")
    IN  gtm_id # "" /\
        ( (\E i \in DOMAIN gtm_id_prefixes : StartsWith(gtm_id, gtm_id_prefixes[i]))
          \/ Len(gtm_id) > 10 )

\* tid_value and any(tid_value.startswith(p) ...), read as a truth value
has_tracking_id(params) ==
    LET tid_value == Get(params, "tid", "")
    IN  tid_value # "" /\
        \E i \in DOMAIN tracking_id_prefixes :
            StartsWith(tid_value, tracking_id_prefixes[i])

AdvancedScore(params) ==
    _calculate_sgtm_score(params, has_gtm_container(params), has_tracking_id(params))

\* variant of _advanced_server_side_detection: sGTM from score 2 on
_advanced_server_side_detection_thr2(params) ==
    LET score == AdvancedScore(params)
    IN  [is_server_side |-> score >= 1,
         platform |-> IF score >= 2 THEN "sGTM" ELSE "Custom Tracking",
         score |-> score]

_advanced_server_side_detection(params) ==
    LET score == AdvancedScore(params)
    IN  [is_server_side |-> score >= 1,
         platform |-> IF score >= 3 THEN "sGTM" ELSE "Custom Tracking",
         score |-> score]

\* [p.pixel_id_key, p.event_name_key for p in PLATFORMS.values()], a list
_get_platform_key_params ==
    [i \in 1..(2 * Len(PlatformNames)) |->
        IF i % 2 = 1 THEN PLATFORMS[PlatformNames[(i + 1) \div 2]].pixel_id_key
                     ELSE PLATFORMS[PlatformNames[i \div 2]].event_name_key]

_has_tracking_indicators(params) ==
    \/ _count_matching_params(params, ga4_params) >= 2
    \/ _has_any_params(params, eventParams)
    \/ _count_matching_params(params, trackingParams) >= 2
    \/ (_has_any_params(params, consent_params)
        /\ _has_any_params(params, serverGtmParams))
    \/ (_has_any_params(params, sessionParams)
        /\ _has_any_params(params, valueParams))
    \/ _count_matching_params(params, ecommerceParams) >= 2
    \/ _count_matching_params(params, _get_platform_key_params) >= 2

_detect_server_side_tracking(params, advanced_scoring) ==
    IF advanced_scoring
    THEN _advanced_server_side_detection(params)
    ELSE IF _has_tracking_indicators(params)
         THEN [is_server_side |-> TRUE, platform |-> "Custom Tracking", score |-> 1]
         ELSE [is_server_side |-> FALSE, platform |-> "None", score |-> 0]

(***************************************************************************)
(* JSON values, as json.loads returns them:                                *)
(*   [t |-> "str", s |-> chars]     [t |-> "num", s |-> what str() gives]  *)
(*   [t |-> "bool", s |-> "True" or "False"]      [t |-> "null"]           *)
(*   [t |-> "obj", keys |-> <<k1, ..>>, vals |-> <<v1, ..>>]  (dict order) *)
(*   [t |-> "arr", vals |-> <<v1, ..>>]                                    *)
(***************************************************************************)
JStr(s) == [t |-> "str", s |-> s]

JNum(s) == [t |-> "num", s |-> s]

JNull == [t |-> "null"]

JObj(keys, vals) == [t |-> "obj", keys |-> keys, vals |-> vals]

JArr(vals) == [t |-> "arr", vals |-> vals]

\* bool(v) of a JSON value
Truthy(v) ==
    CASE v.t = "str" -> v.s # ""
      [] v.t = "num" -> v.s \notin {"0", "0.0"}
      [] v.t = "bool" -> v.s = "True"
      [] v.t = "null" -> FALSE
      [] v.t = "obj" -> Len(v.keys) > 0
      [] OTHER -> Len(v.vals) > 0

\* the last index of key k in a dict's key list (a later entry wins)
LastIndex(keys, k) ==
    CHOOSE i \in DOMAIN keys :
        keys[i] = k /\ \A j \in DOMAIN keys : keys[j] = k => j <= i

\* json.dumps(v), compact
RECURSIVE Dumps(_)
RECURSIVE DumpsItems(_, _)
Dumps(v) ==
    CASE v.t = "str" -> "\"" \o v.s \o "\""
      [] v.t = "num" -> v.s
      [] v.t = "bool" -> IF v.s = "True" THEN "true" ELSE "false"
      [] v.t = "null" -> "null"
      [] v.t = "obj" -> "{" \o DumpsItems(v, 1) \o "}"
      [] OTHER -> "[" \o DumpsItems(v, 1) \o "]"
DumpsItems(v, i) ==
    IF i > Len(v.vals) THEN ""
    ELSE (IF v.t = "obj" THEN "\"" \o v.keys[i] \o "\":" ELSE "")
         \o Dumps(v.vals[i])
         \o (IF i < Len(v.vals) THEN "," ELSE "")
         \o DumpsItems(v, i + 1)

(***************************************************************************)
(* Flows.  A flow is the request the interception layer hands over:        *)
(*   host    request.pretty_host                                           *)
(*   base    the path without its query string                             *)
(*   query   the query string, a list of <<key, value>> pairs              *)
(*   method  "GET" or "POST"                                               *)
(*   ctype   the Content-Type header                                       *)
(*   body    [kind, json, raw, decodable]: kind "none" (no content),       *)
(*           "json" (content is json.dumps of the value json) or "raw"     *)
(*           (content is the text raw, which json.loads rejects);          *)
(*           decodable tells whether get_text() can decode the bytes       *)
(***************************************************************************)
PyNone == "<None>"

NoBody == [kind |-> "none", json |-> JNull, raw |-> "", decodable |-> TRUE]

JsonBody(v) == [kind |-> "json", json |-> v, raw |-> "", decodable |-> TRUE]

RawBody(text) == [kind |-> "raw", json |-> JNull, raw |-> text, decodable |-> TRUE]

\* a body whose bytes are not valid in the declared charset
UndecodableBody == [kind |-> "raw", json |-> JNull, raw |-> "?", decodable |-> FALSE]

\* flow.request.get_text() of a decodable body
BodyText(flow) ==
    CASE flow.body.kind = "none" -> ""
      [] flow.body.kind = "json" -> Dumps(flow.body.json)
      [] OTHER -> flow.body.raw

\* urlencode of the query pairs from index i on ("k=v&k=v")
RECURSIVE QueryString(_, _)
QueryString(query, i) ==
    IF i > Len(query) THEN ""
    ELSE query[i][1] \o "=" \o query[i][2]
         \o (IF i < Len(query) THEN "&" ELSE "") \o QueryString(query, i + 1)

\* flow.request.path: mitmproxy keeps the query string in it
RequestPath(flow) ==
    IF Len(flow.query) = 0 THEN flow.base
    ELSE flow.base \o "?" \o QueryString(flow.query, 1)

\* flow.request.url
RequestUrl(flow) == "https://" \o flow.host \o RequestPath(flow)

\* a list of <<key, value>> pairs as a dict (a later pair wins)
PairsDict(pairs) ==
    [k \in {pairs[i][1] : i \in DOMAIN pairs} |->
        pairs[CHOOSE i \in DOMAIN pairs :
                  /\ pairs[i][1] = k
                  /\ \A j \in DOMAIN pairs : pairs[j][1] = k => j <= i][2]]

\* dict(flow.request.query)
QueryDict(flow) == PairsDict(flow.query)

\* bool(flow.request.content)
HasContent(flow) == flow.body.kind # "none"

\* s.split(sep) for a one-character sep: the list of pieces
RECURSIVE SplitFrom(_, _, _, _)
SplitFrom(s, sep, start, i) ==
    IF i > Len(s) THEN <<SubSeq(s, start, Len(s))>>
    ELSE IF SubSeq(s, i, i) = sep
         THEN <<SubSeq(s, start, i - 1)>> \o SplitFrom(s, sep, i + 1, i + 1)
         ELSE SplitFrom(s, sep, start, i + 1)

Split(s, sep) == SplitFrom(s, sep, 1, 1)

\* the index of the first sep in s at or after i, or 0
RECURSIVE FindFrom(_, _, _)
FindFrom(s, sep, i) ==
    IF i + Len(sep) - 1 > Len(s) THEN 0
    ELSE IF SubSeq(s, i, i + Len(sep) - 1) = sep THEN i
    ELSE FindFrom(s, sep, i + 1)

\* the index of the first sep in s, or 0
Find(s, sep) == FindFrom(s, sep, 1)

\* urllib.parse.parse_qs(text), first value per key: a list of pairs.
\* Pieces without "=" and pairs with a blank value are dropped.
RECURSIVE ParseQsFrom(_, _, _)
ParseQsFrom(pieces, i, seen) ==
    IF i > Len(pieces) THEN <<>>
    ELSE LET piece == pieces[i]
             eq == Find(piece, "=")
             k == SubSeq(piece, 1, eq - 1)
             v == SubSeq(piece, eq + 1, Len(piece))
         IN  IF eq = 0 \/ v = "" \/ k \in seen
             THEN ParseQsFrom(pieces, i + 1, seen)
             ELSE <<<<k, v>>>> \o ParseQsFrom(pieces, i + 1, seen \cup {k})

parse_qs(text) == IF text = "" THEN <<>> ELSE ParseQsFrom(Split(text, "&"), 1, {})

(***************************************************************************)
(* UnifiedPlatformDetector                                                 *)
(***************************************************************************)
\* An operation's outcome: exc = "" when it returns val, else the exception
Ret(val) == [exc |-> "", val |-> val]

Raise(exc) == [exc |-> exc, val |-> PyNone]

\* the top level of a JSON dict as params.update(json_data) stores it; a
\* str value is kept, any other value is kept as its str()
TopLevel(v) ==
    [k \in Range(v.keys) |->
        LET x == v.vals[LastIndex(v.keys, k)]
        IN  IF x.t \in {"str", "num", "bool"} THEN x.s ELSE Dumps(x)]

\* the POST half of _get_all_params, for a decodable body with this text
PostParams(flow, params, text) ==
    IF Contains(flow.ctype, "application/json") \/ StartsWith(text, "{")
    THEN IF flow.body.kind = "json" /\ flow.body.json.t = "obj"
         THEN Update(params, TopLevel(flow.body.json))
         ELSE params
    ELSE IF Contains(flow.ctype, "application/x-www-form-urlencoded")
    THEN Update(params, PairsDict(parse_qs(text)))
    ELSE params

\* _get_all_params: query parameters, then the top level of a POST body.
\* get_text() raises ValueError on undecodable bytes, which the except
\* clause (JSONDecodeError, UnicodeDecodeError) does not catch.
_get_all_params(flow) ==
    IF flow.method = "POST" /\ HasContent(flow)
    THEN IF ~flow.body.decodable THEN Raise("ValueError")
         ELSE Ret(PostParams(flow, QueryDict(flow), BodyText(flow)))
    ELSE Ret(QueryDict(flow))

\* the keys k of _get_all_params for which params.get(k, '') is a true
\* value that is not a str (it comes from a JSON body)
NonStrParams(flow) ==
    IF /\ flow.method = "POST" /\ HasContent(flow) /\ flow.body.decodable
       /\ flow.body.kind = "json" /\ flow.body.json.t = "obj"
    THEN {k \in Range(flow.body.json.keys) :
            LET x == flow.body.json.vals[LastIndex(flow.body.json.keys, k)]
            IN  x.t # "str" /\ Truthy(x)}
    ELSE {}

\* a regional host: <prefix><suffix> with prefix region\d+ or [a-z]{2,5}\d*
RegionalPrefix(pre) ==
    \/ /\ StartsWith(pre, "region")
       /\ Len(pre) > 6
       /\ AllIn(pre, 7, Len(pre), Digits)
    \/ \E n \in 2..5 :
          /\ n <= Len(pre)
          /\ AllIn(pre, 1, n, LowerLetters)
          /\ AllIn(pre, n + 1, Len(pre), Digits)

ga4_paths ==
    <<"/g/collect", "/g/s/collect", "/collect", "/r/collect", "/gtag/js",
      "/mp/collect", "/td">>

_is_regional_ga4(host, path) ==
    /\ \E i \in DOMAIN ga4_paths : StartsWith(path, ga4_paths[i])
    /\ \E suffix \in {".analytics.google.com", ".google-analytics.com"} :
          /\ EndsWith(host, suffix)
          /\ RegionalPrefix(SubSeq(host, 1, Len(host) - Len(suffix)))

\* the first platform among those with table index in hits, in table order
FirstPlatform(hits, dflt) ==
    IF hits = {} THEN dflt
    ELSE PlatformNames[CHOOSE i \in hits : \A j \in hits : i <= j]

\* variant of _detect_standard_platform: no GTM script rule, fallback "Unknown"
_detect_standard_platform_unknown(host, path) ==
    IF host = "trc.taboola.com" /\ Contains(path, "/trc/") THEN "Taboola"
    ELSE FirstPlatform({i \in DOMAIN PlatformNames : host \in PLATFORMS[PlatformNames[i]].hosts /\ \E pp \in PLATFORMS[PlatformNames[i]].paths : StartsWith(path, pp)}, FirstPlatform({i \in DOMAIN PlatformNames : host \in PLATFORMS[PlatformNames[i]].hosts}, "Unknown"))

_detect_standard_platform(host, path) ==
    LET HostAndPath ==
            {i \in DOMAIN PlatformNames :
                /\ host \in PLATFORMS[PlatformNames[i]].hosts
                /\ \E pp \in PLATFORMS[PlatformNames[i]].paths :
                       StartsWith(path, pp)}
        HostOnly ==
            {i \in DOMAIN PlatformNames :
                host \in PLATFORMS[PlatformNames[i]].hosts}
    IN  IF host = "trc.taboola.com" /\ Contains(path, "/trc/") THEN "Taboola"
        ELSE IF path = "/gtm.js" \/ StartsWith(path, "/gtm.js?") THEN "GA4"
        ELSE FirstPlatform(HostAndPath, FirstPlatform(HostOnly, "Custom Tracking"))

\* gtm_id.startswith / tid_value.startswith on a non-str value
AdvancedTypeError(flow) ==
    "gtm" \in NonStrParams(flow) \/ "tid" \in NonStrParams(flow)

\* what _check_server_side_tracking returns for a detection result
ServerSideVerdict(detection_result) ==
    IF detection_result.is_server_side /\ detection_result.platform = "sGTM"
    THEN "sGTM"
    ELSE IF /\ detection_result.is_server_side
            /\ detection_result.platform = "Custom Tracking"
    THEN "Custom Tracking"
    ELSE PyNone

\* _check_server_side_tracking once _get_all_params has ended with got
ScorerVerdict(flow, got) ==
    IF got.exc # "" THEN got
    ELSE IF AdvancedTypeError(flow) THEN Raise("AttributeError")
    ELSE Ret(ServerSideVerdict(_detect_server_side_tracking(got.val, TRUE)))

\* variant of _check_server_side_tracking: scorer run for listed hosts too
_check_server_side_tracking_nohostskip(host, path, flow) ==
    IF host = "trc.taboola.com" /\ Contains(path, "/trc/") THEN Ret(PyNone)
    ELSE ScorerVerdict(flow, _get_all_params(flow))

_check_server_side_tracking(host, path, flow) ==
    IF host = "trc.taboola.com" /\ Contains(path, "/trc/") THEN Ret(PyNone)
    ELSE IF host \in ALL_HOSTS THEN Ret(PyNone)
    ELSE ScorerVerdict(flow, _get_all_params(flow))

CacheKey(host, path) == host \o ":" \o path

\* variant of Store: the write replaces the cache
Store_only(cache, key, label) == key :> label

Store(cache, key, label) == (key :> label) @@ cache

ConsentHosts ==
    {"www.google.com", "google.com", "www.googletagmanager.com",
     "googletagmanager.com"}

\* a label returned and written to the cache; val = <<label, cache>>
Labelled(cache, host, path, label) ==
    Ret(<<label, Store(cache, CacheKey(host, path), label)>>)

\* detect_platform from the scorer's verdict sgtm on
ScorerOrTable(cache, host, path, sgtm) ==
    IF sgtm.exc # "" THEN Raise(sgtm.exc)
    ELSE IF sgtm.val = "sGTM" THEN Labelled(cache, host, path, "sGTM")
    ELSE Labelled(cache, host, path, _detect_standard_platform(host, path))

\* variant of DetectUncached: without the privacy-sandbox branch
DetectUncached_nosandbox(cache, host, path, flow) ==
    IF path = "/ccm/collect" /\ host \in ConsentHosts
    THEN Labelled(cache, host, path, "Google Consent Collection")
    ELSE IF _is_regional_ga4(host, path)
    THEN Labelled(cache, host, path, "GA4")
    ELSE ScorerOrTable(cache, host, path,
                       _check_server_side_tracking(host, path, flow))

\* the branches after the cache check
DetectUncached(cache, host, path, flow) ==
    IF Contains(path, "/privacy-sandbox") \/ Contains(path, "/privacy_sandbox")
    THEN Labelled(cache, host, path, "Privacy Sandbox")
    ELSE IF path = "/ccm/collect" /\ host \in ConsentHosts
    THEN Labelled(cache, host, path, "Google Consent Collection")
    ELSE IF _is_regional_ga4(host, path)
    THEN Labelled(cache, host, path, "GA4")
    ELSE ScorerOrTable(cache, host, path,
                       _check_server_side_tracking(host, path, flow))

\* variant of detect_platform: the cache is written but never read
detect_platform_nocache(cache, host, path, flow) ==
    DetectUncached(cache, host, path, flow)

detect_platform(cache, host, path, flow) ==
    IF CacheKey(host, path) \in DOMAIN cache
    THEN Ret(<<cache[CacheKey(host, path)], cache>>)
    ELSE DetectUncached(cache, host, path, flow)

CacheLimit == 200

common_platforms == {"GA4", "Facebook", "TikTok", "Google Ads", "sGTM"}

\* clear_cache: no caller in the sources
clear_cache(cache) ==
    IF Cardinality(DOMAIN cache) > CacheLimit
    THEN [k \in {x \in DOMAIN cache : cache[x] \in common_platforms} |-> cache[k]]
    ELSE cache

\* s.rstrip('/')
RECURSIVE RStripSlash(_)
RStripSlash(s) ==
    IF Len(s) > 0 /\ SubSeq(s, Len(s), Len(s)) = "/"
    THEN RStripSlash(SubSeq(s, 1, Len(s) - 1))
    ELSE s

\* s.split('?')[0]
BeforeQuery(s) == Split(s, "?")[1]

\* the "more flexible matching" of is_tracking_request
FlexibleMatch(tracking_path, path) ==
    LET clean_tracking_path == RStripSlash(tracking_path)
        clean_request_path == BeforeQuery(RStripSlash(path))
    IN  \/ Contains(clean_request_path, clean_tracking_path)
        \/ StartsWith(clean_request_path, clean_tracking_path)
        \/ (EndsWith(clean_tracking_path, "/")
            /\ StartsWith(clean_request_path, RStripSlash(clean_tracking_path)))

\* is_tracking_request's path test for a host of the table
TrackingPathMatch(path) ==
    \/ \E tp \in ALL_PATHS : StartsWith(path, tp)
    \/ \E tp \in ALL_PATHS : FlexibleMatch(tp, path)

\* is_tracking_request once _get_all_params has ended with got
GateVerdict(flow, got) ==
    IF got.exc # "" THEN got
    ELSE IF _detect_server_side_tracking(got.val, FALSE).is_server_side
    THEN Ret(TRUE)
    ELSE Ret(flow.host \in ALL_HOSTS /\ TrackingPathMatch(RequestPath(flow)))

\* is_server_side_tracking_request, then the host and path tables
is_tracking_request(flow) == GateVerdict(flow, _get_all_params(flow))

UpperAlphabet == "ABCDEFGHIJKLMNOPQRSTUVWXYZ"

LowerAlphabet == "abcdefghijklmnopqrstuvwxyz"

\* the function taking each character of alphabet `from` to the one at the
\* same place of alphabet `to`
CaseMap(from, to) ==
    [c \in {SubSeq(from, i, i) : i \in 1..Len(from)} |->
        SubSeq(to, Find(from, c), Find(from, c))]

ToLower == CaseMap(UpperAlphabet, LowerAlphabet)

ToUpper == CaseMap(LowerAlphabet, UpperAlphabet)

\* s with every character in the domain of map replaced by its image
RECURSIVE MapCase(_, _)
MapCase(s, map) ==
    IF s = "" THEN ""
    ELSE LET c == SubSeq(s, 1, 1)
         IN  (IF c \in DOMAIN map THEN map[c] ELSE c)
             \o MapCase(SubSeq(s, 2, Len(s)), map)

\* s.lower(), s.upper()
Lower(s) == MapCase(s, ToLower)

Upper(s) == MapCase(s, ToUpper)

StaticExtensions ==
    {".js", ".html", ".css", ".js.map", ".css.map", ".png", ".jpg", ".jpeg",
     ".gif", ".svg", ".ico", ".woff", ".woff2", ".ttf", ".eot"}

_is_static_asset(path) ==
    LET lower == Lower(path)
    IN  \E ext \in StaticExtensions : EndsWith(lower, ext)

(***************************************************************************)
(* Event handlers: extract_identifiers                                     *)
(***************************************************************************)
Ids(pixel_id, event_name, event_type) ==
    [pixel_id |-> pixel_id, event_name |-> event_name, event_type |-> event_type]

\* the end of the longest run of digits of s that starts at i (i - 1: none)
DigitRunEnd(s, i) ==
    CHOOSE j \in (i - 1)..Len(s) :
        /\ AllIn(s, i, j, Digits)
        /\ (j = Len(s) \/ SubSeq(s, j + 1, j + 1) \notin Digits)

\* re.search(pre (\d+) tail, s).group(1), or "" when there is no match; the
\* tail is one character of terms, or the end of s when endOk, or nothing
\* at all when anyTail
SearchDigits(s, pre, terms, endOk, anyTail) ==
    LET At(i) ==
            /\ SubSeq(s, i, i + Len(pre) - 1) = pre
            /\ LET e == DigitRunEnd(s, i + Len(pre))
               IN  /\ e >= i + Len(pre)
                   /\ \/ anyTail
                      \/ (endOk /\ e = Len(s))
                      \/ (e < Len(s) /\ SubSeq(s, e + 1, e + 1) \in terms)
        hits == {i \in 1..(Len(s) - Len(pre) + 1) : At(i)}
    IN  IF hits = {} THEN ""
        ELSE LET i == CHOOSE x \in hits : \A y \in hits : x <= y
             IN  SubSeq(s, i + Len(pre), DigitRunEnd(s, i + Len(pre)))

\* variant of BaseEventHandler.extract_identifiers: event name defaults to ""
BaseEventHandler_extract_identifiers_blank(config, data) ==
    Ids(Get(data, config.pixel_id_key, ""),
        Get(data, config.event_name_key, ""),
        "Standard Event")

BaseEventHandler_extract_identifiers(config, data) ==
    Ids(Get(data, config.pixel_id_key, ""),
        Get(data, config.event_name_key, "Unknown"),
        "Standard Event")

GA4EventHandler_extract_identifiers(config, data) ==
    LET request_path == Get(data, "_request_path", "")
        base == BaseEventHandler_extract_identifiers(config, data)
    IN  IF Contains(request_path, "gtag/js")
        THEN Ids(Get(data, "id", ""), "gtag_library_load", "JavaScript Library")
        ELSE IF Contains(request_path, "/td")
        THEN Ids(Get(data, "id", ""), "tag_diagnostics", "Tag Diagnostics")
        ELSE IF Contains(request_path, "ccm/collect")
        THEN Ids(IF Get(data, "gtm", "") # "" THEN data["gtm"]
                 ELSE "CCM-" \o Get(data, "gcs", "Unknown"),
                 Get(data, "en", "consent_mode_event"), "Consent Mode")
        ELSE Ids(base.pixel_id, base.event_name, "Analytics Event")

ServerSideGTMEventHandler_extract_identifiers(config, data) ==
    LET request_path == Get(data, "_request_path", "")
        base == BaseEventHandler_extract_identifiers(config, data)
    IN  IF Contains(request_path, "gtag/js")
        THEN Ids(Get(data, "id", ""), "gtag_library_load (sGTM)",
                 "JavaScript Library")
        ELSE IF Contains(request_path, "ccm/collect")
        THEN Ids(IF Get(data, "gtm", "") # "" THEN data["gtm"]
                 ELSE "CCM-" \o Get(data, "gcs", "Unknown"),
                 Get(data, "en", "consent_mode_event"), "Consent Mode")
        ELSE Ids(base.pixel_id, base.event_name, "Server-side Analytics")

FacebookEventHandler_extract_identifiers(config, data) ==
    LET base == BaseEventHandler_extract_identifiers(config, data)
        event_name == base.event_name
    IN  Ids(base.pixel_id, event_name,
            CASE event_name \in {"PageView"} -> "Page Tracking"
              [] event_name \in {"Purchase", "InitiateCheckout", "AddToCart"}
                   -> "E-commerce"
              [] event_name \in {"Lead", "CompleteRegistration", "Subscribe"}
                   -> "Conversion"
              [] event_name \in {"ViewContent", "Search", "AddToWishlist"}
                   -> "Engagement"
              [] OTHER -> "Custom Event")

adwords_patterns ==
    <<"/pagead/1p-conversion/", "/pagead/conversion/", "/pagead/1p-user-list/",
      "/ads/conversion/">>

\* _extract_adwords_id: the first pattern, in list order, that matches; ""
\* stands for None
_extract_adwords_id(request_path) ==
    LET Hit(i) == SearchDigits(request_path, adwords_patterns[i], {"/", "?"},
                               TRUE, FALSE)
        hits == {i \in DOMAIN adwords_patterns : Hit(i) # ""}
    IN  IF hits = {} THEN ""
        ELSE Hit(CHOOSE i \in hits : \A j \in hits : i <= j)

path_events ==
    <<<<"/pagead/1p-conversion/", "enhanced_conversion">>,
      <<"/pagead/conversion/", "conversion_tracking">>,
      <<"/ads/conversion/", "conversion_tracking">>,
      <<"/pagead/1p-user-list/", "remarketing_user_list">>>>

GoogleAdsEventHandler_extract_identifiers(config, data) ==
    LET request_path == Get(data, "_request_path", "")
        adwords_id == _extract_adwords_id(request_path)
        given == Get(data, config.pixel_id_key, "")
        pixel_id == IF adwords_id # "" /\ given = "" THEN "AW-" \o adwords_id
                    ELSE given
        hits == {i \in DOMAIN path_events :
                    Contains(request_path, path_events[i][1])}
        hit_type == Get(data, "t", "")
    IN  IF hits # {}
        THEN LET event_name ==
                     path_events[CHOOSE i \in hits : \A j \in hits : i <= j][2]
             IN  Ids(pixel_id, event_name,
                     IF Contains(event_name, "enhanced")
                     THEN "Enhanced Conversion" ELSE "Conversion Tracking")
        ELSE IF hit_type = "sr"
        THEN Ids(pixel_id, "remarketing_audience", "Remarketing")
        ELSE IF hit_type = "pageview"
        THEN Ids(pixel_id, "pageview_tracking", "Page Tracking")
        ELSE IF hit_type = "event"
        THEN Ids(pixel_id, "custom_event", "Custom Event")
        ELSE IF Contains(request_path, "ga-audiences")
        THEN Ids(pixel_id, "audience_building", "Audience Building")
        ELSE IF Contains(request_path, "conversion")
        THEN Ids(pixel_id, "conversion_tracking", "Conversion Tracking")
        ELSE Ids(pixel_id,
                 IF hit_type # "" THEN "hit_type_" \o hit_type ELSE "Ads Activity",
                 "Ads Activity Tracking")

\* <<event_name, event_type>> of LinkedIn's /collect endpoint
_classify_collect_endpoint(data) ==
    LET fmt == Get(data, "fmt", "")
        shown == IF fmt # "" THEN fmt ELSE "beacon"
    IN  IF Get(data, "conversionId", "") # ""
        THEN <<"Conversion Collection (" \o shown \o ")", "Conversion Tracking">>
        ELSE IF Get(data, "eventId", "") # ""
        THEN <<"Custom Event Collection (" \o shown \o ")",
               "Custom Event Tracking">>
        ELSE IF Get(data, "v", "") # "" /\ Get(data, "v", "") # "0"
        THEN <<"Value Tracking (" \o shown \o ")", "Value-based Tracking">>
        ELSE IF fmt = "js"
        THEN <<"Data Collection (JS)", "JavaScript Tracking">>
        ELSE <<"Data Collection (Beacon)", "Beacon Tracking">>

url_events ==
    <<<<{"checkout", "purchase", "order"}, "Purchase Page", "E-commerce Tracking">>,
      <<{"cart", "basket"}, "Cart Page", "E-commerce Tracking">>,
      <<{"contact", "form"}, "Lead Page", "Lead Generation">>,
      <<{"signup", "register"}, "Registration Page", "Registration Tracking">>,
      <<{"demo", "trial"}, "Demo Request", "Lead Generation">>,
      <<{"download"}, "Download Page", "Content Engagement">>>>

_classify_by_parameters(data) ==
    LET event_id == Get(data, "eventId", "")
        url == Lower(Get(data, "url", ""))
        hits == {i \in DOMAIN url_events :
                    \E keyword \in url_events[i][1] : Contains(url, keyword)}
    IN  IF Get(data, "conversionId", "") # ""
        THEN <<"Conversion Event", "Conversion Tracking">>
        ELSE IF event_id # ""
        THEN <<"Custom Event_" \o (IF Len(event_id) > 10
                                   THEN SubSeq(event_id, 1, 8) ELSE event_id),
               "Custom Event Tracking">>
        ELSE IF Get(data, "v", "") # "" /\ Get(data, "v", "") # "0"
        THEN <<"Value Event", "Value-based Tracking">>
        ELSE IF url # ""
        THEN IF hits # {}
             THEN LET i == CHOOSE x \in hits : \A y \in hits : x <= y
                  IN  <<url_events[i][2], url_events[i][3]>>
             ELSE <<"Page View", "Page Tracking">>
        ELSE IF Get(data, "tm", "") = "gtmv2"
        THEN <<"GTM Integration", "Tag Manager Event">>
        ELSE <<"Insight Tag", "General Tracking">>

LinkedInEventHandler_extract_identifiers(config, data) ==
    LET request_path == Get(data, "_request_path", "")
        li_fat_id == Get(data, "li_fat_id", "")
        cls == IF Contains(request_path, "/collect")
               THEN _classify_collect_endpoint(data)
               ELSE IF Contains(request_path, "/attribution_trigger")
               THEN <<"Attribution Trigger", "Conversion Attribution">>
               ELSE IF Contains(request_path, "/li.lms-analytics/")
               THEN <<"LMS Analytics", "Learning Analytics">>
               ELSE IF Contains(request_path, "/px")
               THEN <<"Pixel Fire", "Pixel Tracking">>
               ELSE _classify_by_parameters(data)
    IN  Ids(Get(data, config.pixel_id_key, ""),
            IF li_fat_id # ""
            THEN cls[1] \o " (li_fat_id: " \o li_fat_id \o ")" ELSE cls[1],
            cls[2])

pinterest_events ==
    <<<<"PAGE_LOAD", "page_load", "Page Tracking">>,
      <<"CONVERSION", "conversion", "Conversion">>,
      <<"CUSTOM", "custom", "Custom Event">>>>

PinterestEventHandler_extract_identifiers(config, data) ==
    LET pixel_id == Get(data, config.pixel_id_key, "")
        dep_value == Upper(Get(data, "dep", ""))
        hits == {i \in DOMAIN pinterest_events :
                    Contains(dep_value, pinterest_events[i][1])}
    IN  IF hits # {}
        THEN LET i == CHOOSE x \in hits : \A y \in hits : x <= y
             IN  Ids(pixel_id, pinterest_events[i][2], pinterest_events[i][3])
        ELSE Ids(pixel_id, Get(data, config.event_name_key, "Unknown"),
                 "Pinterest Event")

\* percent escapes known to the model: <<two hex digits, character>>
Escapes ==
    <<<<"20", " ">>, <<"2F", "/">>, <<"3B", ";">>, <<"3D", "=">>,
      <<"7E", "~">>, <<"7B", "{">>, <<"7D", "}">>>>

\* urllib.parse.unquote(s)
RECURSIVE Unquote(_)
Unquote(s) ==
    IF s = "" THEN ""
    ELSE LET hits == {i \in DOMAIN Escapes :
                         Len(s) >= 3 /\ SubSeq(s, 1, 3) = "%" \o Escapes[i][1]}
         IN  IF hits # {}
             THEN Escapes[CHOOSE i \in hits : TRUE][2]
                  \o Unquote(SubSeq(s, 4, Len(s)))
             ELSE SubSeq(s, 1, 1) \o Unquote(SubSeq(s, 2, Len(s)))

\* s.split(sep)[-1] for a separator of any length
RECURSIVE AfterLast(_, _)
AfterLast(s, sep) ==
    LET at == Find(s, sep)
    IN  IF at = 0 THEN s
        ELSE AfterLast(SubSeq(s, at + Len(sep), Len(s)), sep)

\* the "key=value" pieces of a ';'-separated list as pairs, values unquoted
RECURSIVE SemicolonPairs(_, _)
SemicolonPairs(pieces, i) ==
    IF i > Len(pieces) THEN <<>>
    ELSE LET eq == Find(pieces[i], "=")
         IN  (IF eq = 0 THEN <<>>
              ELSE <<<<SubSeq(pieces[i], 1, eq - 1),
                       Unquote(SubSeq(pieces[i], eq + 1, Len(pieces[i])))>>>>)
             \o SemicolonPairs(pieces, i + 1)

\* <<pixel_id, event_name>> from the parsed activity parameters
ActivityInfo(params) ==
    LET src_id == Get(params, "src", "")
        activity_type == Get(params, "type", "")
        category == Get(params, "cat", "")
        ord_id == Get(params, "ord", "")
        name == IF activity_type # "" /\ category # ""
                THEN "Floodlight_" \o activity_type \o "_" \o category
                ELSE IF activity_type # "" THEN "Floodlight_" \o activity_type
                ELSE "Floodlight_Activity"
    IN  <<IF src_id # "" THEN src_id ELSE "Unknown",
          IF ord_id # "" /\ ord_id # "1" THEN name \o "_ord" \o ord_id ELSE name>>

_extract_ddm_activity_info(request_path, data) ==
    LET activity_part == BeforeQuery(AfterLast(request_path, "/ddm/activity/"))
    IN  ActivityInfo(PairsDict(SemicolonPairs(Split(activity_part, ";"), 1)))

_extract_activity_semicolon_params(request_url, data) ==
    LET path_part == AfterLast(request_url, "://ad.doubleclick.net/")
    IN  IF Contains(request_url, "://ad.doubleclick.net/")
           /\ StartsWith(path_part, "activity;")
        THEN ActivityInfo(PairsDict(SemicolonPairs(
                 Split(SubSeq(path_part, 10, Len(path_part)), ";"), 1)))
        ELSE <<"Unknown", "Floodlight_Activity">>

DoubleClickEventHandler_extract_identifiers(config, data) ==
    LET request_path == Get(data, "_request_path", "")
        request_url == Get(data, "_request_url", "")
        vtc == SearchDigits(request_path, "/pagead/viewthroughconversion/",
                            {"/"}, FALSE, FALSE)
        cv == Get(data, "cv", "")
        event_type == Get(data, "t", "")
    IN  IF Contains(request_path, "/ddm/activity/")
        THEN Ids(_extract_ddm_activity_info(request_path, data)[1],
                 "Floodlight Activity", "Floodlight Activity")
        ELSE IF Contains(request_path, "activity")
        THEN Ids(_extract_activity_semicolon_params(request_url, data)[1],
                 "Floodlight Activity", "Floodlight Activity")
        ELSE IF Contains(request_path, "google_com")
        THEN Ids("", "Cookie Matching", "Cookie Matching")
        ELSE IF Contains(request_path, "/pagead/viewthroughconversion/")
        THEN IF vtc # ""
             THEN Ids(vtc,
                      IF cv # "" THEN "View-Through Conversion ($" \o cv \o ")"
                      ELSE "View-Through Conversion",
                      "View-Through Conversion")
             ELSE Ids("", "View-Through Conversion", "View-Through Conversion")
        ELSE IF Contains(request_path, "/g/collect")
        THEN Ids(Get(data, "tid", ""),
                 IF event_type = "dc" THEN "GA Signals"
                 ELSE IF event_type # "" THEN "GA4 " \o event_type
                 ELSE "GA4 Event",
                 "Enhanced Conversion")
        ELSE Ids(Get(data, "tid", Get(data, "label", "")),
                 Get(data, "t", Get(data, "label", "DoubleClick Evenxxxt")),
                 "Display Tracking")

MicrosoftBingEventHandler_extract_identifiers(config, data) ==
    LET request_path == Get(data, "_request_path", "")
        pixel_id == Get(data, config.pixel_id_key, "")
        event_name == Get(data, config.event_name_key, "")
        insights == SearchDigits(request_path, "/p/insights/t/", {}, FALSE, TRUE)
        evt == Get(data, "evt", "")
    IN  IF Contains(request_path, "/p/insights/t/")
        THEN Ids(IF insights # "" THEN insights ELSE pixel_id,
                 "UET_Insights", "Analytics Insights")
        ELSE IF Contains(request_path, "/p/insights/c/j")
        THEN Ids(pixel_id, "UET_JavaScript", "JavaScript Library")
        ELSE IF Contains(request_path, "/action/")
        THEN Ids(pixel_id, IF evt # "" THEN evt ELSE "UET_Action",
                 IF Lower(evt) \in {"conversion", "goal", "purchase"}
                 THEN "Conversion Tracking" ELSE "Action Tracking")
        ELSE IF Contains(request_path, "/bat.js") \/ Contains(request_path, "/uet.js")
        THEN Ids(pixel_id, "UET_Library_Load", "JavaScript Library")
        ELSE Ids(pixel_id,
                 IF event_name = "" \/ event_name = "Unknown"
                 THEN "UET_Event" ELSE event_name,
                 "UET Tracking")

sandbox_events ==
    <<<<"/privacy_sandbox/topics/registration", "Topics Registration">>,
      <<"/privacy_sandbox/pixel/register/trigger", "Pixel Registration">>,
      <<"/privacy_sandbox/topics/", "Topics API">>,
      <<"/privacy_sandbox/fledge/", "FLEDGE">>,
      <<"/privacy_sandbox/attribution_reporting/", "Attribution Reporting">>,
      <<"/privacy_sandbox/trust_tokens/", "Trust Tokens">>,
      <<"/privacy_sandbox/private_aggregation/", "Private Aggregation">>,
      <<"/privacy_sandbox/shared_storage/", "Shared Storage">>,
      <<"/privacy_sandbox/", "Privacy Sandbox">>>>

PrivacySandboxEventHandler_extract_identifiers(config, data) ==
    LET pixel_id == Get(data, config.pixel_id_key, "")
        request_path == Get(data, "_request_path", "")
        host == Get(data, "_request_host", "")
        platform_name ==
            IF Contains(host, "facebook.com") THEN "Facebook"
            ELSE IF \E pat \in {"google.com", "doubleclick.net",
                                "googlesyndication.com",
                                "region1.google-analytics.com"} :
                       Contains(host, pat)
            THEN "Google"
            ELSE "Privacy Sandbox"
        hits == {i \in DOMAIN sandbox_events :
                    Contains(request_path, sandbox_events[i][1])}
        event_type_name ==
            IF hits = {} THEN "Privacy Sandbox Event"
            ELSE sandbox_events[CHOOSE i \in hits : \A j \in hits : i <= j][2]
    IN  IF Get(data, "ev", "") = "PageView"
        THEN Ids(pixel_id, platform_name \o " PageView",
                 "Privacy-Enhanced Tracking")
        ELSE IF Get(data, "en", "") # ""
        THEN Ids(pixel_id,
                 platform_name \o " " \o event_type_name \o " " \o data["en"],
                 "Privacy Sandbox")
        ELSE Ids(pixel_id, platform_name \o " " \o event_type_name,
                 "Privacy Sandbox")

CCMEventHandler_extract_identifiers(config, data) ==
    LET pixel_id == Get(data, config.pixel_id_key, "")
        consent_state == Get(data, "gcs", "")
    IN  IF consent_state # ""
        THEN Ids(pixel_id,
                 IF Contains(consent_state, "G1") THEN "Consent Granted"
                 ELSE IF Contains(consent_state, "G0") THEN "Consent Denied"
                 ELSE "Consent State Change",
                 "Consent Update")
        ELSE IF Get(data, "gdpr", "") # ""
        THEN Ids(pixel_id, "GDPR Compliance Check", "Privacy Compliance")
        ELSE IF Get(data, "dma", "") # ""
        THEN Ids(pixel_id, "DMA Consent Processing", "Privacy Compliance")
        ELSE Ids(pixel_id, "Consent Collection", "Privacy Data Collection")

TaboolaEventHandler_extract_identifiers(config, data) ==
    LET given == Get(data, config.pixel_id_key, "")
        request_path == Get(data, "_request_path", "")
        path_segments == Split(request_path, "/")
        pixel_id ==
            IF Len(path_segments) > 1 /\ IsDigit(path_segments[2])
            THEN IF given = "" THEN path_segments[2]
                 ELSE given \o " (pub:" \o path_segments[2] \o ")"
            ELSE given
    IN  IF Contains(request_path, "/trc/")
        THEN IF Contains(request_path, "/json")
             THEN Ids(pixel_id, "Taboola Tracking Event", "JSON Tracking")
             ELSE Ids(pixel_id, "Taboola Pixel Fire", "Pixel Tracking")
        ELSE IF Contains(request_path, "/actions/")
        THEN Ids(pixel_id, "Taboola Action Event", "Action Tracking")
        ELSE IF Contains(request_path, "/libtrc/")
        THEN Ids(pixel_id, "Taboola Library Load", "Library Loading")
        ELSE Ids(pixel_id, "Taboola Activity", "General Tracking")

cmp_mapping ==
    <<<<"usercentrics", "Usercentrics">>, <<"cookielaw.org", "OneTrust">>,
      <<"onetrust.com", "OneTrust">>, <<"optanon", "OneTrust">>,
      <<"cookiebot.com", "Cookiebot">>, <<"consentmanager", "ConsentManager">>,
      <<"consensu.org", "ConsentManager">>, <<"iubenda.com", "Iubenda">>,
      <<"cookie-script.com", "CookieScript">>,
      <<"cdn.cookie-script.com", "CookieScript">>,
      <<"consent.cookie-script.com", "CookieScript">>,
      <<"quantcast.com", "Quantcast">>, <<"trustarc.com", "TrustArc">>,
      <<"didomi", "Didomi">>>>

_detect_cmp_provider(host) ==
    LET lower == Lower(host)
        hits == {i \in DOMAIN cmp_mapping : Contains(lower, cmp_mapping[i][1])}
    IN  IF hits = {} THEN "CMP"
        ELSE cmp_mapping[CHOOSE i \in hits : \A j \in hits : i <= j][2]

ConsentManagementPlatformEventHandler_extract_identifiers(config, data) ==
    LET pixel_id == Get(data, config.pixel_id_key, "")
        request_path == Get(data, "_request_path", "")
        cmp_provider == _detect_cmp_provider(Get(data, "_request_host", ""))
        PathHas(pats) == \E pat \in pats : Contains(request_path, pat)
    IN  IF PathHas({"/browser-ui/", "/otnotice/", "/cc.js", "/cs.js", "/uc.js"})
        THEN Ids(pixel_id, cmp_provider \o " Banner Load", "Banner Display")
        ELSE IF PathHas({"/api/", "/consent/", "/groups/", "/choice.js"})
        THEN IF Contains(Lower(request_path), "consent")
             THEN Ids(pixel_id, cmp_provider \o " Consent API",
                      "Consent Processing")
             ELSE IF Contains(Lower(request_path), "settings")
                     \/ Contains(Lower(request_path), "groups")
             THEN Ids(pixel_id, cmp_provider \o " Settings Load", "Configuration")
             ELSE Ids(pixel_id, cmp_provider \o " API Request",
                      "API Communication")
        ELSE IF PathHas({"/settings/", "/latest/", "/scripttemplates/"})
        THEN Ids(pixel_id, cmp_provider \o " Configuration", "Settings")
        ELSE IF PathHas({"/privacy-notice/", "/cookie-policy/"})
        THEN Ids(pixel_id, cmp_provider \o " Policy Load", "Policy Display")
        ELSE Ids(pixel_id, cmp_provider \o " Activity", "Consent Management")

MicrosoftClarityEventHandler_extract_identifiers(config, data) ==
    LET event_name == Get(data, "t", "clarity_event")
    IN  Ids(Get(data, "id", ""),
            IF event_name = "" \/ event_name = "Unknown"
            THEN "session_collect" ELSE event_name,
            "Clarity Event")

(***************************************************************************)
(* Event handler factory and the event builder                             *)
(***************************************************************************)
\* the config get_event_handler builds for a platform outside PLATFORMS
DefaultConfig(platform) ==
    [name |-> platform, pixel_id_key |-> "pixel_id",
     event_name_key |-> "event_name"]

\* get_event_handler(platform).extract_identifiers(data), by EVENT_HANDLERS
extract_identifiers(platform, data) ==
    IF platform \notin DOMAIN PLATFORMS
    THEN BaseEventHandler_extract_identifiers(DefaultConfig(platform), data)
    ELSE LET config == PLATFORMS[platform]
         IN  CASE platform = "GA4" ->
                    GA4EventHandler_extract_identifiers(config, data)
               [] platform = "sGTM" ->
                    ServerSideGTMEventHandler_extract_identifiers(config, data)
               [] platform = "Facebook" ->
                    FacebookEventHandler_extract_identifiers(config, data)
               [] platform = "Google Ads" ->
                    GoogleAdsEventHandler_extract_identifiers(config, data)
               [] platform = "LinkedIn" ->
                    LinkedInEventHandler_extract_identifiers(config, data)
               [] platform = "Pinterest" ->
                    PinterestEventHandler_extract_identifiers(config, data)
               [] platform = "Microsoft/Bing" ->
                    MicrosoftBingEventHandler_extract_identifiers(config, data)
               [] platform = "Microsoft Clarity" ->
                    MicrosoftClarityEventHandler_extract_identifiers(config, data)
               [] platform = "DoubleClick" ->
                    DoubleClickEventHandler_extract_identifiers(config, data)
               [] platform = "Taboola" ->
                    TaboolaEventHandler_extract_identifiers(config, data)
               [] platform = "Privacy Sandbox" ->
                    PrivacySandboxEventHandler_extract_identifiers(config, data)
               [] platform = "Google Consent Collection" ->
                    CCMEventHandler_extract_identifiers(config, data)
               [] platform = "Consent Management Platform" ->
                    ConsentManagementPlatformEventHandler_extract_identifiers(
                        config, data)
               [] OTHER -> BaseEventHandler_extract_identifiers(config, data)

\* json.loads(text) gives a number, a bool or None
IsJsonScalar(text) ==
    \/ text \in {"true", "false", "null"}
    \/ IsDigit(text)
    \/ (Len(text) > 1 /\ SubSeq(text, 1, 1) = "-"
        /\ IsDigit(SubSeq(text, 2, Len(text))))

\* TaboolaEventHandler.extract_platform_info: "'u' in json_data" on a
\* number, bool or None raises TypeError, which the except clause
\* (JSONDecodeError, KeyError) does not catch.  The returned list of
\* display strings is not modelled, only whether the call returns.
TaboolaEventHandler_extract_platform_info(data) ==
    LET tracking_data == Get(data, "data", "")
    IN  IF tracking_data # "" /\ IsJsonScalar(Unquote(tracking_data))
        THEN Raise("TypeError")
        ELSE Ret("extra_info")

\* get_event_handler(platform).extract_platform_info(data, mapped, name);
\* on str-valued data the other strategies only read and format values
extract_platform_info(platform, data) ==
    IF platform = "Taboola" THEN TaboolaEventHandler_extract_platform_info(data)
    ELSE Ret("extra_info")

default_param_map ==
    ("pixel_id" :> "pixel_id") @@ ("event" :> "event_name")
      @@ ("value" :> "value") @@ ("currency" :> "currency")
      @@ ("url" :> "page_url") @@ ("ref" :> "referrer")

get_param_map_for_platform(platform) ==
    IF platform \in DOMAIN PLATFORMS THEN PLATFORMS[platform].param_map
    ELSE default_param_map

\* {param_map[k]: data[k] for k in param_map if k in data}; the names a
\* registry map gives are distinct
MappedData(param_map, data) ==
    LET present == {k \in DOMAIN param_map : k \in DOMAIN data}
    IN  [name \in {param_map[k] : k \in present} |->
            data[CHOOSE k \in present : param_map[k] = name]]

PropertyInfo(id, type, formatted) ==
    [id |-> id, type |-> type, formatted |-> formatted]

Formatted(pixel_id, type_name, short_name) ==
    PropertyInfo(pixel_id, type_name, pixel_id \o " (" \o short_name \o ")")

\* PLATFORM_ID_FORMATTERS[platform] applied to a non-empty id: the matching
\* rule as <<type, short code>>, or <<>> when no rule of the platform matches
PLATFORM_ID_FORMATTERS(platform, pixel_id) ==
    CASE platform = "GA4" ->
           IF StartsWith(pixel_id, "G-") THEN <<"GA4 Measurement ID", "GA4">>
           ELSE IF StartsWith(pixel_id, "UA-")
           THEN <<"Universal Analytics ID", "UA">>
           ELSE IF StartsWith(pixel_id, "CCM-") THEN <<"GA4 Consent Mode", "CCM">>
           ELSE IF Len(pixel_id) > 10 THEN <<"GTM Container (CCM)", "GTM-CCM">>
           ELSE <<>>
      [] platform = "Google Ads" ->
           IF StartsWith(pixel_id, "AW-") THEN <<"Google Ads Conversion ID", "Ads">>
           ELSE IF StartsWith(pixel_id, "G-") THEN <<"GA4 -> Google Ads", "GA4->Ads">>
           ELSE <<>>
      [] platform = "Facebook" ->
           IF IsDigit(pixel_id) /\ Len(pixel_id) >= 15
           THEN <<"Facebook Pixel ID", "FB">> ELSE <<>>
      [] platform = "TikTok" ->
           IF Len(pixel_id) >= 10 THEN <<"TikTok Pixel Code", "TT">> ELSE <<>>
      [] platform = "Snapchat" ->
           IF Contains(pixel_id, "-") /\ Len(pixel_id) >= 30
           THEN <<"Snapchat Pixel ID", "SC">> ELSE <<>>
      [] platform = "Pinterest" ->
           IF IsDigit(pixel_id) THEN <<"Pinterest Tag ID", "PIN">> ELSE <<>>
      [] platform = "LinkedIn" ->
           IF IsDigit(pixel_id) THEN <<"LinkedIn Partner ID", "LI">> ELSE <<>>
      [] platform = "Twitter/X" -> <<"Twitter/X Pixel ID", "X">>
      [] platform = "Microsoft/Bing" ->
           IF IsDigit(pixel_id) THEN <<"Bing UET Tag ID", "UET">> ELSE <<>>
      [] OTHER -> <<>>

\* variant of FormatWith: no step for the fixed list of platforms
FormatWith_generic(pixel_id, platform, rule) ==
    IF rule # <<>> THEN Formatted(pixel_id, rule[1], rule[2])
    ELSE Formatted(pixel_id, "Pixel/Property ID", platform)

\* _format_pixel_id from the matching rule of the platform on
FormatWith(pixel_id, platform, rule) ==
    IF rule # <<>> THEN Formatted(pixel_id, rule[1], rule[2])
    ELSE IF platform \in {"Amazon", "Criteo", "Reddit", "Quora", "Outbrain",
                          "Taboola"}
    THEN Formatted(pixel_id, platform \o " Pixel ID",
                   Upper(SubSeq(platform, 1, 3)))
    ELSE Formatted(pixel_id, "Pixel/Property ID", platform)

_format_pixel_id(pixel_id, platform) ==
    IF pixel_id = "" THEN PropertyInfo("", "", "")
    ELSE FormatWith(pixel_id, platform,
                    PLATFORM_ID_FORMATTERS(platform, pixel_id))

\* variant of _generate_request_hash: the body is left out of the digest input
_generate_request_hash_nobody(url, post_data, method) == method \o "|" \o url

\* _generate_request_hash: the digest stands for the text it is taken of
_generate_request_hash(url, post_data, method) ==
    method \o "|" \o url \o "|" \o post_data

\* variant of CleanData: only the three keys _extract_request_data writes are
\* dropped
CleanData_synthetic(data) ==
    [k \in DOMAIN data \ {"_request_path", "_request_host", "_request_url"} |->
        data[k]]

\* {k: v for k, v in data.items() if not k.startswith('_request_')}
CleanData(data) ==
    [k \in {x \in DOMAIN data : ~StartsWith(x, "_request_")} |-> data[k]]

\* the fields every logged event of the builder carries
EventRecord(type, event, platform, ids, extracted, property, mapped_data, request_hash, method, request_path, request_url, raw_data) ==
    [type |-> type, event |-> event, platform |-> platform,
     pixel_id |-> ids.pixel_id, event_type |-> ids.event_type,
     extracted |-> extracted, property |-> property,
     mapped_data |-> mapped_data, request_hash |-> request_hash,
     request_method |-> method, request_path |-> request_path,
     request_url |-> request_url, raw_data |-> raw_data]

\* the marketing_pixel_event branch, info being what extract_platform_info did
MarketingPixelEvent(info, ids, data, platform, request_path, request_url, request_hash, method) ==
    IF info.exc # "" THEN Raise(info.exc)
    ELSE Ret(EventRecord("marketing_pixel_event", ids.event_name, platform,
                         ids, TRUE, _format_pixel_id(ids.pixel_id, platform),
                         MappedData(get_param_map_for_platform(platform), data),
                         request_hash, method, request_path, request_url,
                         CleanData(data)))

\* process_marketing_pixel_event from the identifiers of the strategy on
EventFor(ids, data, platform, request_path, request_url, request_hash, method) ==
    IF ids.event_name = "Unknown" /\ ids.pixel_id = ""
    THEN Ret(EventRecord("custom_tracking", "not defined", platform,
                         Ids("", "", ""), FALSE, PropertyInfo("", "", ""),
                         EmptyDict, request_hash, method, request_path,
                         request_url, CleanData(data)))
    ELSE MarketingPixelEvent(extract_platform_info(platform, data), ids, data,
                             platform, request_path, request_url,
                             request_hash, method)

\* process_marketing_pixel_event: the event it logs, or the exception a
\* strategy raises (only _format_pixel_id is inside a try)
process_marketing_pixel_event(data, platform, request_path, request_url, post_data, method) ==
    EventFor(extract_identifiers(platform, data), data, platform, request_path,
             request_url,
             _generate_request_hash(
                 IF request_url = PyNone THEN "" ELSE request_url,
                 post_data, method),
             method)

(***************************************************************************)
(* UnifiedRequestProcessor                                                 *)
(***************************************************************************)
\* str(v) of a JSON value; repr(v) differs for a str only
RECURSIVE PyStr(_)
RECURSIVE PyRepr(_)
RECURSIVE PyItems(_, _)
PyStr(v) ==
    CASE v.t \in {"str", "num", "bool"} -> v.s
      [] v.t = "null" -> "None"
      [] OTHER -> PyRepr(v)
PyRepr(v) ==
    CASE v.t = "str" -> "'" \o v.s \o "'"
      [] v.t \in {"num", "bool"} -> v.s
      [] v.t = "null" -> "None"
      [] v.t = "obj" -> "{" \o PyItems(v, 1) \o "}"
      [] OTHER -> "[" \o PyItems(v, 1) \o "]"
PyItems(v, i) ==
    IF i > Len(v.vals) THEN ""
    ELSE (IF v.t = "obj" THEN "'" \o v.keys[i] \o "': " ELSE "")
         \o PyRepr(v.vals[i])
         \o (IF i < Len(v.vals) THEN ", " ELSE "")
         \o PyItems(v, i + 1)

\* decimal digits of a natural number
RECURSIVE Dec(_)
Dec(n) ==
    IF n < 10 THEN SubSeq("0123456789", n + 1, n + 1)
    ELSE Dec(n \div 10) \o SubSeq("0123456789", (n % 10) + 1, (n % 10) + 1)

\* variant of LeafStr: None is not singled out
LeafStr_none(x) == PyStr(x)

\* str(x) if x is not None else ""
LeafStr(x) == IF x.t = "null" THEN "" ELSE PyStr(x)

\* the assignments _flatten_json_to_params makes, in order, as pairs
RECURSIVE FlattenPairs(_, _)
RECURSIVE FlattenItems(_, _, _)
FlattenPairs(json_data, prefix) ==
    IF json_data.t \in {"obj", "arr"} THEN FlattenItems(json_data, prefix, 1)
    ELSE <<<<IF prefix # "" THEN prefix ELSE "value", LeafStr(json_data)>>>>
FlattenItems(json_data, prefix, i) ==
    IF i > Len(json_data.vals) THEN <<>>
    ELSE LET new_key ==
                 IF json_data.t = "obj"
                 THEN IF prefix # "" THEN prefix \o "." \o json_data.keys[i]
                      ELSE json_data.keys[i]
                 ELSE IF prefix # "" THEN prefix \o "[" \o Dec(i - 1) \o "]"
                      ELSE "item_" \o Dec(i - 1)
             item == json_data.vals[i]
         IN  (IF item.t \in {"obj", "arr"} THEN FlattenPairs(item, new_key)
              ELSE <<<<new_key, LeafStr(item)>>>>)
             \o FlattenItems(json_data, prefix, i + 1)

_flatten_json_to_params(json_data) == PairsDict(FlattenPairs(json_data, ""))

HasKey(v, k) == v.t = "obj" /\ k \in Range(v.keys)

Field(v, k) == v.vals[LastIndex(v.keys, k)]

\* "k in event" followed by event[k] for an event that is no dict raises
\* TypeError: on a number, bool or None at the membership test, on a str
\* or list holding k at the subscript
EventTypeError(event) ==
    CASE event.t = "obj" -> FALSE
      [] event.t = "str" -> Contains(event.s, "name") \/ Contains(event.s, "params")
      [] event.t = "arr" -> \E i \in DOMAIN event.vals :
                                event.vals[i] \in {JStr("name"), JStr("params")}
      [] OTHER -> TRUE

\* the token prefixes parse_product_data knows, with the field of each
ProductFields ==
    ("nm" :> "name") @@ ("id" :> "id") @@ ("pr" :> "price")
      @@ ("br" :> "brand") @@ ("ca" :> "category") @@ ("qt" :> "quantity")

\* variant of IsProductParam: any key that starts with pr
IsProductParam_prefix(k) == StartsWith(k, "pr")

\* k.startswith('pr') and k[2:].isdigit()
IsProductParam(k) == StartsWith(k, "pr") /\ IsDigit(SubSeq(k, 3, Len(k)))

\* the assignments to product_info for the tokens parts[i..], in order
RECURSIVE ProductPairs(_, _)
ProductPairs(parts, i) ==
    IF i > Len(parts) THEN <<>>
    ELSE (IF Len(parts[i]) > 2 /\ SubSeq(parts[i], 1, 2) \in DOMAIN ProductFields
          THEN <<<<ProductFields[SubSeq(parts[i], 1, 2)],
                   SubSeq(parts[i], 3, Len(parts[i]))>>>>
          ELSE <<>>)
         \o ProductPairs(parts, i + 1)

\* product_info of one product parameter value
ProductInfo(prod_value) ==
    PairsDict(ProductPairs(Split(Unquote(prod_value), "~"), 1))

\* parse_product_data(data), data given by its items() from index i on (a
\* dict keeps insertion order): the non-empty product_info dicts, in order
RECURSIVE ProductsFrom(_, _)
ProductsFrom(items, i) ==
    IF i > Len(items) THEN <<>>
    ELSE (IF IsProductParam(items[i][1])
             /\ DOMAIN ProductInfo(items[i][2]) # {}
          THEN <<ProductInfo(items[i][2])>> ELSE <<>>)
         \o ProductsFrom(items, i + 1)

parse_product_data(items) == ProductsFrom(items, 1)

\* the assignments process_json_event makes for event['params'], in order
RECURSIVE ParamPairs(_, _, _)
ParamPairs(params, ga4_param_map, i) ==
    IF i > Len(params.keys) THEN <<>>
    ELSE LET param_key == params.keys[i]
             param_value == params.vals[i]
             Joined[j \in 0..Len(param_value.vals)] ==
                 IF j = 0 THEN ""
                 ELSE Joined[j - 1] \o (IF j > 1 THEN ", " ELSE "")
                      \o PyStr(param_value.vals[j])
         IN  <<IF param_key \in DOMAIN ga4_param_map
               THEN <<ga4_param_map[param_key], PyStr(param_value)>>
               ELSE <<"ep." \o param_key,
                      IF param_value.t = "arr"
                      THEN Joined[Len(param_value.vals)]
                      ELSE PyStr(param_value)>>>>
             \o ParamPairs(params, ga4_param_map, i + 1)

\* process_json_event.  event['name'] is stored as it is; a name that is
\* no str is represented by its str().
process_json_event(json_data, event, url_params) ==
    LET ga4_param_map == PLATFORMS["GA4"].param_map
        common ==
            [ga_key \in {IF json_key = "non_personalized_ads" THEN "npa"
                         ELSE ga4_param_map[json_key] :
                         json_key \in {k \in DOMAIN ga4_param_map :
                                          HasKey(json_data, k)}} |->
                LET json_key == CHOOSE k \in DOMAIN ga4_param_map :
                        /\ HasKey(json_data, k)
                        /\ ga_key = IF k = "non_personalized_ads" THEN "npa"
                                    ELSE ga4_param_map[k]
                IN  IF json_key = "non_personalized_ads"
                    THEN IF Truthy(Field(json_data, json_key)) THEN "1" ELSE "0"
                    ELSE PyStr(Field(json_data, json_key))]
        named == IF HasKey(event, "name")
                 THEN "en" :> PyStr(Field(event, "name")) ELSE EmptyDict
    IN  IF EventTypeError(event) THEN Raise("TypeError")
        ELSE IF HasKey(event, "params") /\ Field(event, "params").t # "obj"
        THEN Raise("AttributeError")
        ELSE Ret(Update(Update(Update(url_params, common), named),
                        IF HasKey(event, "params")
                        THEN PairsDict(ParamPairs(Field(event, "params"),
                                                  ga4_param_map, 1))
                        ELSE EmptyDict))

\* the three synthetic keys handlers read
RequestMetadata(flow) ==
    ("_request_path" :> RequestPath(flow))
      @@ ("_request_host" :> flow.host)
      @@ ("_request_url" :> RequestUrl(flow))

\* the outcome of a list of calls: the first exception, or the list of values
FirstRaise(batch) ==
    IF \E i \in DOMAIN batch : batch[i].exc # ""
    THEN Raise(batch[CHOOSE i \in DOMAIN batch :
                   /\ batch[i].exc # ""
                   /\ \A j \in DOMAIN batch : batch[j].exc # "" => i <= j].exc)
    ELSE Ret([i \in DOMAIN batch |-> batch[i].val])

\* the GA4 batch: process_json_event on each element of "events", in order
EventBatch(json_data, events, url_params) ==
    FirstRaise([i \in DOMAIN events |->
                   process_json_event(json_data, events[i], url_params)])

\* _extract_request_data for a POST with a decodable body
PostData(flow, platform, url_params, raw_data) ==
    IF (StartsWith(raw_data, "{") \/ StartsWith(raw_data, "["))
       /\ flow.body.kind = "json"
    THEN IF /\ platform = "GA4" /\ HasKey(flow.body.json, "events")
            /\ Field(flow.body.json, "events").t = "arr"
         THEN EventBatch(flow.body.json, Field(flow.body.json, "events").vals,
                         url_params)
         ELSE Ret(<<Update(url_params,
                           _flatten_json_to_params(flow.body.json))>>)
    ELSE Ret(<<Update(url_params, PairsDict(parse_qs(raw_data)))>>)

\* _extract_request_data: val is the list of parameter maps to process (one
\* map, or one per event of a GA4 JSON batch)
_extract_request_data(flow, platform) ==
    IF flow.method = "GET" \/ ~HasContent(flow)
    THEN Ret(<<Update(QueryDict(flow), RequestMetadata(flow))>>)
    ELSE IF ~flow.body.decodable THEN Raise("ValueError")
    ELSE PostData(flow, platform,
                  Update(QueryDict(flow), RequestMetadata(flow)),
                  BodyText(flow))

\* what one hook call did: the cache it leaves, the events it logged in
\* order, the error lines it logged, the label detect_platform returned (or
\* PyNone when it was not reached) and the exception that left the hook
HookResult(cache, events, errors, platform, escaped) ==
    [cache |-> cache, events |-> events, errors |-> errors,
     platform |-> platform, escaped |-> escaped]

\* the events process_request logs for data list items i.. until a call of
\* process_marketing_pixel_event raises; <<events, exception or "">>
RECURSIVE ProcessAll(_, _, _, _, _)
\* event r logged, then the outcome rest of the items after it
Prepend(r, rest) == <<<<r>> \o rest[1], rest[2]>>

\* item i gave r
ProcessFrom(r, request_data, i, platform, flow, post_data) ==
    IF r.exc # "" THEN <<<<>>, r.exc>>
    ELSE Prepend(r.val,
                 ProcessAll(request_data, i + 1, platform, flow, post_data))

ProcessAll(request_data, i, platform, flow, post_data) ==
    IF i > Len(request_data) THEN <<<<>>, "">>
    ELSE ProcessFrom(process_marketing_pixel_event(request_data[i], platform,
                         RequestPath(flow), RequestUrl(flow), post_data,
                         flow.method),
                     request_data, i, platform, flow, post_data)

\* the end of the try block: done is what ProcessAll gave
Logged(cache, platform, done) ==
    HookResult(cache, done[1],
               IF done[2] = "" THEN <<>> ELSE <<"PARSE_ERROR: " \o done[2]>>,
               platform, "")

\* the try block of process_request, got being what _extract_request_data did
TryBlock(cache, platform, flow, got) ==
    IF got.exc # ""
    THEN HookResult(cache, <<>>, <<"PARSE_ERROR: " \o got.exc>>, platform, "")
    ELSE Logged(cache, platform,
                ProcessAll(got.val, 1, platform, flow, BodyText(flow)))

\* process_request from the result det of detect_platform on
Detected(flow, cache, det) ==
    IF det.exc # "" THEN HookResult(cache, <<>>, <<>>, PyNone, det.exc)
    ELSE TryBlock(det.val[2], det.val[1], flow,
                  _extract_request_data(flow, det.val[1]))

\* process_request from the result gate of is_tracking_request on
Gated(flow, cache, gate) ==
    IF gate.exc # "" THEN HookResult(cache, <<>>, <<>>, PyNone, gate.exc)
    ELSE IF ~gate.val THEN HookResult(cache, <<>>, <<>>, PyNone, "")
    ELSE Detected(flow, cache,
                  detect_platform(cache, flow.host, RequestPath(flow), flow))

\* process_request: the static check, the gate and detect_platform run
\* outside the try; what follows is inside "try ... except Exception", which
\* logs a PARSE_ERROR line
process_request(cache, flow) ==
    IF _is_static_asset(RequestPath(flow))
    THEN HookResult(cache, <<>>, <<>>, PyNone, "")
    ELSE Gated(flow, cache, is_tracking_request(flow))

(***************************************************************************)
(* UnifiedResponseProcessor.  A response is [status_code, content_type,    *)
(* set_cookie], set_cookie being the list of Set-Cookie header values.     *)
(***************************************************************************)
SUCCESS_STATUS_CODES == {200, 204, 302}

JS_CONTENT_TYPES ==
    {"javascript", "application/js", "text/js", "application/javascript",
     "text/javascript", "application/x-javascript", "text/x-javascript"}

JS_PATH_PATTERNS ==
    {"/gtm.js", "/gtag/js", "/analytics.js", "/ga.js", "/bat.js", "/uet.js"}

_is_success_status(status_code) == status_code \in SUCCESS_STATUS_CODES

_is_error_status(status_code) == status_code >= 400

\* s.strip() for blanks
RECURSIVE Strip(_)
Strip(s) ==
    IF Len(s) > 0 /\ SubSeq(s, 1, 1) = " " THEN Strip(SubSeq(s, 2, Len(s)))
    ELSE IF Len(s) > 0 /\ SubSeq(s, Len(s), Len(s)) = " "
    THEN Strip(SubSeq(s, 1, Len(s) - 1))
    ELSE s

\* variant of _is_javascript_content: no response is a script
_is_javascript_content_never(flow, resp) == FALSE

_is_javascript_content(flow, resp) ==
    LET content_type == Lower(resp.content_type)
        main_type == Strip(Split(content_type, ";")[1])
        path == RequestPath(flow)
    IN  \/ main_type \in JS_CONTENT_TYPES
        \/ EndsWith(path, ".js")
        \/ \E pattern \in JS_PATH_PATTERNS : Contains(path, pattern)

\* _log_response_status: the status event of a response, as a list
StatusEvents(flow, resp, platform, js_info) ==
    LET request_hash == _generate_request_hash(RequestUrl(flow), BodyText(flow),
                                               flow.method)
    IN  IF _is_error_status(resp.status_code)
        THEN <<[type |-> "warning", event |-> "tracking_request_failed",
                platform |-> platform, status_code |-> resp.status_code,
                success |-> FALSE, request_hash |-> request_hash,
                request_url |-> RequestUrl(flow), method |-> flow.method,
                javascript_endpoint |-> FALSE]>>
        ELSE IF _is_success_status(resp.status_code)
        THEN <<[type |-> "request_status_update",
                event |-> IF js_info THEN "javascript_endpoint_detected"
                          ELSE "status_received",
                platform |-> platform, status_code |-> resp.status_code,
                success |-> TRUE, request_hash |-> request_hash,
                request_url |-> RequestUrl(flow), method |-> flow.method,
                javascript_endpoint |-> js_info]>>
        ELSE <<>>

\* the environment's TARGET_DOMAIN setting
TARGET_DOMAIN == "https://shop.example"

\* urllib.parse.urlparse(url).netloc
Netloc(url) ==
    IF Contains(url, "//") THEN Split(SubSeq(url, Find(url, "//") + 2, Len(url)), "/")[1]
    ELSE ""

_is_tracking_domain(host) ==
    \/ host \in ALL_HOSTS
    \/ \E domain \in {"google", "facebook", "analytics", "doubleclick",
                      "googlesyndication"} : Contains(host, domain)

_is_target_domain(host) ==
    /\ TARGET_DOMAIN # ""
    /\ \/ host = Netloc(TARGET_DOMAIN)
       \/ EndsWith(host, "." \o Netloc(TARGET_DOMAIN))

_is_relevant_domain(host) == _is_tracking_domain(host) \/ _is_target_domain(host)

\* the cookie name of one Set-Cookie header
CookieName(cookie_header) ==
    LET cookie_name_value == Strip(Split(cookie_header, ";")[1])
    IN  IF Contains(cookie_name_value, "=")
        THEN Split(cookie_name_value, "=")[1] ELSE cookie_name_value

_extract_cookie_names(set_cookie_headers) ==
    [i \in DOMAIN set_cookie_headers |-> CookieName(set_cookie_headers[i])]

\* s.title(): the first letter of every run of letters in upper case, the
\* other letters in lower case
RECURSIVE TitleFrom(_, _)
TitleFrom(s, inWord) ==
    IF s = "" THEN ""
    ELSE LET c == SubSeq(s, 1, 1)
             letter == c \in DOMAIN ToLower \/ c \in DOMAIN ToUpper
         IN  (IF inWord THEN MapCase(c, ToLower) ELSE MapCase(c, ToUpper))
             \o TitleFrom(SubSeq(s, 2, Len(s)), letter)

Title(s) == TitleFrom(s, FALSE)

\* the first of parts from index i on that, stripped and in lower case, starts
\* with samesite=: what follows the "=", in title case; "None" without one
RECURSIVE SameSiteFrom(_, _)
SameSiteFrom(cookie_parts, i) ==
    IF i > Len(cookie_parts) THEN "None"
    ELSE IF StartsWith(Lower(Strip(cookie_parts[i])), "samesite=")
    THEN Title(SubSeq(Lower(Strip(cookie_parts[i])), 10,
                      Len(Strip(cookie_parts[i]))))
    ELSE SameSiteFrom(cookie_parts, i + 1)

_extract_same_site(cookie_header) ==
    IF cookie_header = "" THEN "None"
    ELSE SameSiteFrom(Split(cookie_header, ";"), 1)

\* one entry of detailed_cookies (expires and max_age left out)
DetailedCookie(cookie_name, cookie_header, host, path) ==
    LET cookie_parts == Split(cookie_header, ";")[1]
        eq == Find(cookie_parts, "=")
    IN  [name |-> cookie_name,
         value |-> IF cookie_header # "" /\ eq # 0
                   THEN SubSeq(cookie_parts, eq + 1, Len(cookie_parts)) ELSE "",
         domain |-> host, path |-> path,
         http_only |-> Contains(cookie_header, "HttpOnly"),
         secure |-> Contains(cookie_header, "Secure"),
         same_site |-> _extract_same_site(cookie_header)]

\* _handle_cookie_setting with _log_cookie_setting: the cookie event, as a list
_handle_cookie_setting(flow, resp) ==
    LET host == flow.host
        cookies_info == _extract_cookie_names(resp.set_cookie)
    IN  IF Len(resp.set_cookie) = 0 \/ ~_is_relevant_domain(host) THEN <<>>
        ELSE <<[type |-> "cookie", event |-> "cookie_set", host |-> host,
                path |-> RequestPath(flow), cookies |-> cookies_info,
                cookie_type |-> IF _is_tracking_domain(host) THEN "tracking"
                                ELSE "target_domain",
                detailed_cookies |->
                    [i \in DOMAIN cookies_info |->
                        DetailedCookie(cookies_info[i], resp.set_cookie[i],
                                       host, RequestPath(flow))],
                request_url |-> RequestUrl(flow)]>>

\* process_response from the result det of detect_platform on:
\* _handle_tracking_response reads the request body for the hash
Responded(flow, resp, cache, det) ==
    IF det.exc # "" THEN HookResult(cache, <<>>, <<>>, PyNone, det.exc)
    ELSE IF HasContent(flow) /\ ~flow.body.decodable
    THEN HookResult(det.val[2], <<>>, <<>>, det.val[1], "ValueError")
    ELSE HookResult(det.val[2],
                    StatusEvents(flow, resp, det.val[1],
                                 _is_javascript_content(flow, resp))
                      \o _handle_cookie_setting(flow, resp),
                    <<>>, det.val[1], "")

\* process_response: nothing in it is inside a try
process_response(cache, flow, resp) ==
    IF _is_static_asset(RequestPath(flow))
    THEN HookResult(cache, _handle_cookie_setting(flow, resp), <<>>,
                    PyNone, "")
    ELSE Responded(flow, resp, cache,
                   detect_platform(cache, flow.host, RequestPath(flow), flow))

(***************************************************************************)
(* The flows and responses the interception layer delivers                 *)
(***************************************************************************)
Flow(host, base, query, method, ctype, body) ==
    [host |-> host, base |-> base, query |-> query, method |-> method,
     ctype |-> ctype, body |-> body]

Get_(host, base, query) == Flow(host, base, query, "GET", "", NoBody)

PostJson(host, base, v) ==
    Flow(host, base, <<>>, "POST", "application/json", JsonBody(v))

Relay == "sgtm.shop.example"

Flows ==
    {Get_("www.google-analytics.com", "/g/collect",
          <<<<"tid", "G-1">>, <<"en", "page_view">>>>),
     PostJson("www.google-analytics.com", "/g/collect",
          JObj(<<"tid", "events">>,
               <<JStr("G-1"),
                 JArr(<<JObj(<<"name", "params">>,
                             <<JStr("add"), JObj(<<"v">>, <<JNum("1")>>)>>),
                        JObj(<<"name">>, <<JStr("buy")>>)>>)>>)),
     PostJson("www.google-analytics.com", "/g/collect",
          JObj(<<"events">>,
               <<JArr(<<JObj(<<"name">>, <<JStr("add")>>), JNum("5")>>)>>)),
     PostJson("www.google-analytics.com", "/g/collect",
          JObj(<<"tid", "en">>, <<JStr("G-1"), JStr("scroll")>>)),
     Get_("www.facebook.com", "/tr", <<<<"id", "123">>, <<"ev", "PageView">>>>),
     Get_("www.facebook.com", "/tr", <<>>),
     Flow("www.facebook.com", "/tr", <<<<"_request_url", "q">>>>, "POST",
          "application/x-www-form-urlencoded",
          RawBody("_request_path=spoof&id=1&ev=View&_request_id=7")),
     Get_("www.facebook.com", "/privacy_sandbox/topics/", <<<<"id", "1">>>>),
     Get_("www.google.com", "/ccm/collect", <<<<"gcs", "G111">>>>),
     PostJson("www.google.com", "/ccm/collect", JObj(<<"gcs">>, <<JStr("G100")>>)),
     Get_("region1.google-analytics.com", "/g/collect", <<<<"en", "x">>>>),
     PostJson(Relay, "/collect", JObj(<<"en">>, <<JStr("purchase")>>)),
     PostJson(Relay, "/collect",
          JObj(<<"cid", "sid">>, <<JStr("1"), JStr("2")>>)),
     PostJson(Relay, "/collect",
          JObj(<<"gtm", "en">>, <<JNum("123"), JStr("x")>>)),
     Flow(Relay, "/collect", <<>>, "POST",
          "application/x-www-form-urlencoded", RawBody("en=click&cid=9")),
     Flow(Relay, "/mp", <<>>, "POST", "text/plain", UndecodableBody),
     Flow("www.facebook.com", "/tr", <<<<"id", "1">>>>, "POST",
          "application/json", RawBody("{bad")),
     Flow("www.facebook.com", "/tr", <<<<"id", "1">>>>, "POST",
          "application/json", RawBody("{bad&ev=View")),
     Flow("www.facebook.com", "/tr", <<<<"id", "1">>>>, "PUT",
          "text/plain", UndecodableBody),
     Get_(Relay, "/collect", <<>>),
     Get_(Relay, "/g/collect", <<<<"gtm", "GTM-ABC123">>>>),
     Get_(Relay, "/x", <<<<"gtm", "abcdefghijkl">>>>),
     Get_(Relay, "/privacy-sandbox/x", <<>>),
     Get_("trc.taboola.com", "/1532474/trc/3/json", <<<<"data", "5">>>>),
     Get_("trc.taboola.com", "/1532474/trc/3/json", <<<<"data", "%7B%7D">>>>),
     Get_("www.googleadservices.com", "/pagead/conversion/123/",
          <<<<"label", "abc">>>>),
     Get_("ad.doubleclick.net", "/activity;src=1;type=a;cat=b;ord=2", <<>>),
     Get_("px.ads.linkedin.com", "/collect", <<<<"pid", "1">>, <<"fmt", "js">>>>),
     Get_("bat.bing.com", "/action/0", <<<<"ti", "1">>, <<"evt", "purchase">>>>),
     Get_("www.clarity.ms", "/collect", <<>>),
     Get_("cdn.cookielaw.org", "/consent/abc/groups", <<>>),
     Get_("ct.pinterest.com", "/v3/", <<<<"tid", "1">>, <<"event", "checkout">>>>),
     Get_("analytics.tiktok.com", "/api/v2/pixel",
          <<<<"pixel_code", "C123">>, <<"event", "View">>>>),
     Get_("www.googletagmanager.com", "/gtm.js", <<<<"id", "GTM-X">>>>),
     Get_(Relay, "/gtm.js", <<<<"id", "GTM-X">>>>),
     Get_("cdn.shop.example", "/app.js", <<>>),
     Get_("www.shop.example", "/index", <<>>)}

Response(status_code, content_type, set_cookie) ==
    [status_code |-> status_code, content_type |-> content_type,
     set_cookie |-> set_cookie]

Responses ==
    {Response(200, "application/json", <<>>),
     Response(204, "", <<"sid=abc123; HttpOnly; Secure; SameSite=Strict">>),
     Response(301, "text/javascript; charset=utf-8",
              <<"sid=1; Path=/; samesite=lax", "HttpOnly=1">>),
     Response(302, "Application/JavaScript", <<>>),
     Response(503, "", <<>>)}

NoFlow == Get_("", "", <<>>)

NoResponse == Response(0, "", <<>>)

(***************************************************************************)
(* State.  platform_cache is the detector's cache.  The other variables    *)
(* record the last operation: which one (op), its inputs (flow, resp, or   *)
(* params and platform for a direct call) and what it did (the label       *)
(* detect_platform returned, the events and error lines logged, the        *)
(* exception that left the hook, the scorer's result).                     *)
(***************************************************************************)
VARIABLES platform_cache, op, flow, resp, params, platform, emitted, errors,
          escaped, scored, ncalls, request_phase, returned, calls

vars == <<platform_cache, op, flow, resp, params, platform, emitted, errors,
          escaped, scored, ncalls, request_phase, returned, calls>>

MaxCalls == 2

\* the threads of a host that dispatches hooks concurrently
MaxThreads == 2

Threads == 1..MaxThreads

\* a call of detect_platform in flight: where it stands (idle, checked: the
\* cache check at the top missed, done), its flow and the label it returned
Call(pc, f, label) == [pc |-> pc, flow |-> f, label |-> label]

NoCall == Call("idle", NoFlow, PyNone)

\* the scorer's result r for a parameter map p, with the verdict
\* _check_server_side_tracking draws from it
ScoredAs(p, r) ==
    [score |-> _calculate_sgtm_score(p, has_gtm_container(p),
                                     has_tracking_id(p)),
     is_server_side |-> r.is_server_side, platform |-> r.platform,
     verdict |-> ServerSideVerdict(r)]

Scored(p) == ScoredAs(p, _detect_server_side_tracking(p, TRUE))

Init ==
    /\ platform_cache = EmptyDict
    /\ op = "init"
    /\ flow = NoFlow
    /\ resp = NoResponse
    /\ params = EmptyDict
    /\ platform = PyNone
    /\ emitted = <<>>
    /\ errors = <<>>
    /\ escaped = ""
    /\ scored = Scored(EmptyDict)
    /\ ncalls = 0
    /\ request_phase = {}
    /\ returned = PyNone
    /\ calls = [t \in Threads |-> NoCall]

\* the request phase of flow f, with the fingerprints of the events it logged
RequestPhase(f, events) ==
    [flow |-> f, hashes |-> {events[i].request_hash : i \in DOMAIN events}]

\* what a hook call leaves behind
Record(r) ==
    /\ platform_cache' = r.cache
    /\ platform' = r.platform
    /\ emitted' = r.events
    /\ errors' = r.errors
    /\ escaped' = r.escaped

\* the request hook: request(flow)
Request(f) ==
    /\ ncalls < MaxCalls
    /\ op' = "request"
    /\ flow' = f
    /\ resp' = NoResponse
    /\ Record(process_request(platform_cache, f))
    /\ ncalls' = ncalls + 1
    /\ request_phase' = request_phase \cup {RequestPhase(f, emitted')}
    /\ UNCHANGED <<params, scored, returned, calls>>

\* the response hook: response(flow)
RespondTo(f, r) ==
    /\ op' = "response"
    /\ flow' = f
    /\ resp' = r
    /\ Record(process_response(platform_cache, f, r))
    /\ ncalls' = ncalls + 1
    /\ UNCHANGED <<params, scored, request_phase, returned, calls>>

ResponseHook(f, r) == ncalls < MaxCalls /\ RespondTo(f, r)

Next ==
    \/ \E f \in Flows : Request(f)
    \/ \E f \in Flows, r \in Responses : ResponseHook(f, r)

Spec == Init /\ [][Next]_vars

(***************************************************************************)
(* The scorer on its own: a parameter map grows by one parameter at a time *)
(***************************************************************************)
MaxParams == 4

ScoreKeys ==
    {"gtm", "tid", "en", "cid", "dl", "dr", "dt", "gcs", "value", "currency"}

ScoreValues(k) ==
    CASE k = "gtm" -> {"GTM-ABC", "x"}
      [] k = "tid" -> {"G-1", "x"}
      [] OTHER -> {"1"}

AddParam(k, v) ==
    /\ Cardinality(DOMAIN params) < MaxParams
    /\ k \notin DOMAIN params
    /\ op' = "score"
    /\ params' = Update(params, k :> v)
    /\ scored' = Scored(params')
    /\ UNCHANGED <<platform_cache, flow, resp, platform, emitted, errors,
                   escaped, ncalls, request_phase, returned, calls>>

NextScore == \E k \in ScoreKeys : \E v \in ScoreValues(k) : AddParam(k, v)

SpecScore == Init /\ [][NextScore]_vars

(***************************************************************************)
(* The identifier formatter called directly with an id and a label         *)
(***************************************************************************)
FormatIds ==
    {"", "G-1", "UA-5", "CCM-7", "AW-9", "GTM-ABCDEFGH", "GTM-AB", "1234",
     "123456789012345", "abcdefghij", "aaaaaaaaaaaaaaa-aaaaaaaaaaaaaaaa"}

FormatPlatforms ==
    {"GA4", "Google Ads", "Facebook", "TikTok", "Snapchat", "Pinterest",
     "LinkedIn", "Twitter/X", "Microsoft/Bing", "Amazon", "Criteo", "Reddit",
     "Quora", "Outbrain", "Taboola", "sGTM", "Custom Tracking"}

Format(pixel_id, p) ==
    /\ op = "init"
    /\ op' = "format"
    /\ params' = "pixel_id" :> pixel_id
    /\ platform' = p
    /\ returned' = _format_pixel_id(pixel_id, p)
    /\ UNCHANGED <<platform_cache, flow, resp, emitted, errors, escaped, scored,
                   ncalls, request_phase, calls>>

NextFormat == \E pixel_id \in FormatIds, p \in FormatPlatforms : Format(pixel_id, p)

SpecFormat == Init /\ [][NextFormat]_vars

(***************************************************************************)
(* The event builder called directly with a parameter map and a label      *)
(***************************************************************************)
BuildData ==
    {EmptyDict,
     "id" :> "123",
     "en" :> "purchase",
     ("tid" :> "G-1") @@ ("en" :> "page_view"),
     ("id" :> "1") @@ ("ev" :> "PageView"),
     "data" :> "5",
     ("event_name" :> "signup") @@ ("pixel_id" :> "77"),
     ("event_name" :> "") @@ ("pixel_id" :> "77"),
     ("event" :> "") @@ ("event_name" :> ""),
     ("pixel_code" :> "C1") @@ ("event" :> "View")}

BuildPlatforms == Range(PlatformNames) \cup {"Custom Tracking", "Server-side GTM"}

\* the events a direct call of the builder logs
Emitted(r) == IF r.exc = "" THEN <<r.val>> ELSE <<>>

Build(data, p) ==
    /\ op' = "build"
    /\ params' = data
    /\ platform' = p
    /\ emitted' = Emitted(process_marketing_pixel_event(data, p, PyNone, PyNone, "", ""))
    /\ errors' = <<>>
    /\ escaped' = process_marketing_pixel_event(data, p, PyNone, PyNone, "", "").exc
    /\ UNCHANGED <<platform_cache, flow, resp, scored, ncalls, request_phase,
                   returned, calls>>

NextBuilder == \E data \in BuildData, p \in BuildPlatforms : Build(data, p)

SpecBuilder == Init /\ [][NextBuilder]_vars

(***************************************************************************)
(* A long run of responses, each on a host not seen before                 *)
(***************************************************************************)
MaxFill == 201

FreshFlow(n) == Get_("h" \o Dec(n) \o ".example", "/x", <<>>)

FillResponse == Response(200, "", <<>>)

Fill ==
    /\ ncalls < MaxFill
    /\ RespondTo(FreshFlow(ncalls), FillResponse)

NextFill == Fill

SpecFill == Init /\ [][NextFill]_vars

(***************************************************************************)
(* The flattener called directly with a JSON value                         *)
(***************************************************************************)
MaxItems == 2

Leaves == {JNum("1"), JNum("2"), JStr("x"), JNull}

\* the lists of at most MaxItems elements of S
ListsOf(S) == UNION {[1..n -> S] : n \in 0..MaxItems}

\* the lists of leaves
Arrs == {JArr(l) : l \in ListsOf(Leaves)}

\* objects with one key over a leaf or a list of leaves
Objs == {JObj(<<"b">>, <<x>>) : x \in Leaves \cup Arrs}

\* JSON values of nesting depth up to 3
JsonValues ==
    Leaves
      \cup Arrs
      \cup {JArr(<<JObj(<<"k">>, <<x>>), y>>) : x, y \in Leaves}
      \cup {JObj(<<"a">>, <<y>>) : y \in Leaves \cup Arrs \cup Objs}
      \cup {JObj(<<"a", "c">>, <<JObj(<<"b">>, <<y>>), z>>) :
                y \in Arrs, z \in Leaves}

\* _flatten_json_to_params(v) called on the body of a request
Flatten(v) ==
    /\ op' = "flatten"
    /\ flow' = PostJson(Relay, "/collect", v)
    /\ params' = _flatten_json_to_params(v)
    /\ UNCHANGED <<platform_cache, resp, platform, emitted, errors, escaped,
                   scored, ncalls, request_phase, returned, calls>>

NextFlatten == \E v \in JsonValues : Flatten(v)

SpecFlatten == Init /\ [][NextFlatten]_vars

(***************************************************************************)
(* detect_platform called from several threads at once.  The code takes no *)
(* lock: between the cache check at the top and the cache write of the     *)
(* branch taken, another thread may run.                                   *)
(***************************************************************************)
ConcurrentFlows ==
    {PostJson(Relay, "/collect", JObj(<<"en">>, <<JStr("purchase")>>)),
     PostJson(Relay, "/collect",
          JObj(<<"cid", "sid">>, <<JStr("1"), JStr("2")>>)),
     Get_(Relay, "/g/collect", <<<<"gtm", "GTM-ABC123">>>>),
     Get_(Relay, "/collect", <<>>),
     Get_("www.facebook.com", "/tr", <<<<"id", "123">>, <<"ev", "PageView">>>>),
     Get_("region1.google-analytics.com", "/g/collect", <<<<"en", "x">>>>)}

\* thread t enters detect_platform for flow f: the cache check
CheckCache(t, f) ==
    /\ calls[t].pc = "idle"
    /\ op' = "check"
    /\ flow' = f
    /\ calls' = [calls EXCEPT ![t] =
                   IF CacheKey(f.host, RequestPath(f)) \in DOMAIN platform_cache
                   THEN Call("done", f,
                             platform_cache[CacheKey(f.host, RequestPath(f))])
                   ELSE Call("checked", f, PyNone)]
    /\ UNCHANGED <<platform_cache, resp, params, platform, emitted, errors,
                   escaped, scored, ncalls, request_phase, returned>>

\* thread t, past a cache miss, takes its branch: cache write and return
WriteCache(t) ==
    /\ calls[t].pc = "checked"
    /\ op' = "write"
    /\ flow' = calls[t].flow
    /\ platform_cache' =
           DetectUncached(platform_cache, calls[t].flow.host,
                          RequestPath(calls[t].flow), calls[t].flow).val[2]
    /\ calls' = [calls EXCEPT ![t] =
                   Call("done", calls[t].flow,
                        DetectUncached(platform_cache, calls[t].flow.host,
                                       RequestPath(calls[t].flow),
                                       calls[t].flow).val[1])]
    /\ UNCHANGED <<resp, params, platform, emitted, errors, escaped, scored,
                   ncalls, request_phase, returned>>

NextConcurrent ==
    \/ \E t \in Threads, f \in ConcurrentFlows : CheckCache(t, f)
    \/ \E t \in Threads : WriteCache(t)

SpecConcurrent == Init /\ [][NextConcurrent]_vars

(***************************************************************************)
(* The product parser called directly with the parameters of a request     *)
(***************************************************************************)
MaxProducts == 2

ProductKeys == {"pr1", "pr2", "pr12", "pra", "pr", "en"}

ProductValues ==
    {"nmShoe~id123~pr49.99", "nmShoe", "xxJunk~idA1", "nm~qt2", "",
     "brAcme~caMen~nmA~nmB", "zz%7EidB2"}

\* the parameter lists of at most MaxProducts pairs with distinct keys
ProductItems ==
    {l \in UNION {[1..n -> ProductKeys \X ProductValues] : n \in 1..MaxProducts} :
        \A i, j \in DOMAIN l : l[i][1] = l[j][1] => i = j}

\* parse_product_data(data) called on the query parameters of a request
ParseProducts(items) ==
    /\ op = "init"
    /\ op' = "products"
    /\ flow' = Get_("www.google-analytics.com", "/g/collect", items)
    /\ params' = PairsDict(items)
    /\ returned' = parse_product_data(items)
    /\ UNCHANGED <<platform_cache, resp, platform, emitted, errors, escaped,
                   scored, ncalls, request_phase, calls>>

NextProducts == \E items \in ProductItems : ParseProducts(items)

SpecProducts == Init /\ [][NextProducts]_vars

(***************************************************************************)
(* Properties                                                              *)
(***************************************************************************)
\* the last operation was a hook call in which detect_platform returned
HookDetected == op \in {"request", "response"} /\ platform # PyNone

\* detect_platform called for flow f on an empty cache
FreshLabel(f) == DetectUncached(EmptyDict, f.host, RequestPath(f), f)

\* branches 1-3 of detect_platform: privacy-sandbox path, consent
\* collection, regional GA4
Branch123(f) ==
    \/ Contains(RequestPath(f), "/privacy-sandbox")
    \/ Contains(RequestPath(f), "/privacy_sandbox")
    \/ (RequestPath(f) = "/ccm/collect" /\ f.host \in ConsentHosts)
    \/ _is_regional_ga4(f.host, RequestPath(f))

\* the parameters of f can be read and gtm and tid, if given, are strings
StrParams(f) == _get_all_params(f).exc = "" /\ ~AdvancedTypeError(f)

\* the first hook call reached detect_platform past branches 1-3 with
\* parameters the scorer can read
ScorerBranch ==
    HookDetected /\ ncalls = 1 /\ ~Branch123(flow) /\ StrParams(flow)

C2_ScorerBeforeHostTables ==
    (ScorerBranch /\ AdvancedScore(_get_all_params(flow).val) >= 3)
        => platform = "sGTM"

\* C2: parameters the advanced scorer rates >= 3 are labelled sGTM only when
\* the host is in no platform's host table; for a host of a host table the
\* scorer is skipped and the label is the one the host and path tables give.
C2_ScorerOnlyForUnlistedHosts ==
    (ScorerBranch /\ AdvancedScore(_get_all_params(flow).val) >= 3)
        => platform = IF flow.host \in ALL_HOSTS
                      THEN _detect_standard_platform(flow.host, RequestPath(flow))
                      ELSE "sGTM"

\* a listed host with parameters scoring >= 3 got its table label
C2_Witness ==
    /\ ScorerBranch
    /\ AdvancedScore(_get_all_params(flow).val) >= 3
    /\ flow.host \in ALL_HOSTS
    /\ platform = "Facebook"

\* C3: once the cache holds more than the limit of 200 entries, only entries
\* labelled with a common platform remain in it.
C3_CacheBounded ==
    Cardinality(DOMAIN platform_cache) > CacheLimit
        => \A key \in DOMAIN platform_cache :
               platform_cache[key] \in common_platforms

\* the builder logged exactly one event, of type custom_tracking, named
\* "not defined", without attribute extraction
CustomTrackingOnly ==
    /\ escaped = ""
    /\ Len(emitted) = 1
    /\ emitted[1].type = "custom_tracking"
    /\ emitted[1].event = "not defined"
    /\ ~emitted[1].extracted

\* the labels whose strategy names an event for an empty parameter map
NamingPlatforms ==
    {"Google Ads", "LinkedIn", "DoubleClick", "Microsoft/Bing",
     "Microsoft Clarity", "Taboola", "Privacy Sandbox",
     "Google Consent Collection", "Consent Management Platform"}

\* C4 as stated: for params = {} the builder logs a custom_tracking / "not
\* defined" event without attribute extraction, for every platform label.
C4_EmptyParamsAlwaysCustomTracking ==
    (op = "build" /\ params = EmptyDict) => CustomTrackingOnly

\* C4: for params = {} the builder logs a custom_tracking / "not defined"
\* event without attribute extraction for the labels whose strategy leaves
\* the event name "Unknown" (GA4, sGTM, Facebook, Pinterest and every label
\* handled by the default strategy); for the other labels the strategy
\* names an event and a marketing_pixel_event with extraction is logged.
C4_EmptyParamsByStrategy ==
    (op = "build" /\ params = EmptyDict) =>
        IF platform \in NamingPlatforms
        THEN /\ escaped = ""
             /\ Len(emitted) = 1
             /\ emitted[1].type = "marketing_pixel_event"
             /\ emitted[1].event \notin {"", "Unknown", "not defined"}
             /\ emitted[1].extracted
        ELSE CustomTrackingOnly

\* the builder was called with params = {} for Google Ads and named the event
C4_Witness ==
    /\ op = "build"
    /\ params = EmptyDict
    /\ platform = "Google Ads"
    /\ Len(emitted) = 1
    /\ emitted[1].event = "Ads Activity"

\* the request hook reached the builder with parameters on which the
\* strategy of the detected platform raises
StrategyRaises ==
    /\ op = "request"
    /\ platform # PyNone
    /\ _extract_request_data(flow, platform).exc = ""
    /\ \E i \in DOMAIN _extract_request_data(flow, platform).val :
           extract_platform_info(
               platform, _extract_request_data(flow, platform).val[i]).exc # ""

\* C5: when a strategy's extraction raises, nothing propagates and an event
\* is still logged for the request.
C5_StrategyFailureStillEmits ==
    StrategyRaises => (escaped = "" /\ errors = <<>> /\ Len(emitted) >= 1)

\* C6: no exception leaves the request hook or the response hook.
C6_NothingEscapesHook ==
    op \in {"request", "response"} => escaped = ""

\* C7 as stated: the advanced scorer gives sGTM for score >= 3, Custom
\* Tracking for 1 <= score < 3 and platform guess None for score 0, and
\* is_server_side exactly when score >= 1.
C7_ScoreZeroGuessesNone ==
    op = "score" =>
        /\ scored.is_server_side <=> scored.score >= 1
        /\ scored.score >= 3 => scored.platform = "sGTM"
        /\ (scored.score >= 1 /\ scored.score < 3)
               => scored.platform = "Custom Tracking"
        /\ scored.score = 0 => scored.platform \in {PyNone, "None"}

\* C7: the advanced scorer gives sGTM for score >= 3 and Custom Tracking
\* below 3, score 0 included, with is_server_side exactly when score >= 1;
\* the verdict _check_server_side_tracking draws from it is sGTM for
\* score >= 3, Custom Tracking for 1 <= score < 3 and None for score 0.
C7_ClassificationByScore ==
    /\ scored.is_server_side <=> scored.score >= 1
    /\ scored.score >= 3
           => (scored.platform = "sGTM" /\ scored.verdict = "sGTM")
    /\ (scored.score >= 1 /\ scored.score < 3)
           => (scored.platform = "Custom Tracking"
               /\ scored.verdict = "Custom Tracking")
    /\ scored.score = 0
           => (scored.platform = "Custom Tracking" /\ scored.verdict = PyNone)

\* a non-empty parameter map scored 0
C7_Witness ==
    /\ op = "score"
    /\ params # EmptyDict
    /\ scored.score = 0
    /\ ~scored.is_server_side
    /\ scored.platform = "Custom Tracking"

\* C8: adding a parameter to the map, the others kept, never lowers the
\* advanced score.
C8_ScoreMonotone ==
    [][op' = "score" => scored'.score >= scored.score]_vars

\* a map of four GA4-style parameters was scored, grown one parameter at a time
C8_Witness ==
    /\ op = "score"
    /\ Cardinality(DOMAIN params \cap Range(ga4_params)) = MaxParams
    /\ scored.score = AdvancedScore(params)
    /\ scored.score >= 2

\* C9: on an empty cache, for a host in no host table and a path outside
\* branches 1-3, parameters with a container-shaped gtm value are labelled
\* sGTM, the score being at least 4.
C9_ContainerAloneIsRelay ==
    (/\ ScorerBranch
     /\ flow.host \notin ALL_HOSTS
     /\ has_gtm_container(_get_all_params(flow).val))
        => /\ platform = "sGTM"
           /\ AdvancedScore(_get_all_params(flow).val) >= 4

\* a gtm value that is container-shaped by its length only, and no other
\* parameter, was labelled sGTM
C9_Witness ==
    /\ ScorerBranch
    /\ flow.host \notin ALL_HOSTS
    /\ DOMAIN _get_all_params(flow).val = {"gtm"}
    /\ has_gtm_container(_get_all_params(flow).val)
    /\ ~\E i \in DOMAIN gtm_id_prefixes :
           StartsWith(_get_all_params(flow).val["gtm"], gtm_id_prefixes[i])
    /\ platform = "sGTM"

\* the path of f has a privacy-sandbox segment
SandboxPath(f) ==
    \/ Contains(RequestPath(f), "/privacy-sandbox")
    \/ Contains(RequestPath(f), "/privacy_sandbox")

\* C10: a path with a privacy-sandbox segment is labelled Privacy Sandbox
\* whatever the host, the parameters and the cache.
C10_SandboxPathWins ==
    (HookDetected /\ SandboxPath(flow)) => platform = "Privacy Sandbox"

\* a sandbox path on a host of another platform's table was labelled on a
\* cache that already held an entry
C10_Witness ==
    /\ HookDetected
    /\ ncalls = 2
    /\ SandboxPath(flow)
    /\ flow.host \in ALL_HOSTS
    /\ flow.host \notin PLATFORMS["Privacy Sandbox"].hosts
    /\ Cardinality(DOMAIN platform_cache) = 2
    /\ platform = "Privacy Sandbox"

\* the first hook call reached the last step of detect_platform: none of
\* branches 1-6 applies to the flow
FallbackBranch ==
    /\ ScorerBranch
    /\ AdvancedScore(_get_all_params(flow).val) < 3
    /\ flow.host \notin ALL_HOSTS

\* the path is that of the GTM script
GtmScriptPath(f) ==
    RequestPath(f) = "/gtm.js" \/ StartsWith(RequestPath(f), "/gtm.js?")

\* C11 as stated: when none of branches 1-6 applies, detect_platform
\* returns "Custom Tracking", for every path.
C11_FallbackIsCustomTracking ==
    FallbackBranch => platform = "Custom Tracking"

\* C11: when none of branches 1-6 applies, detect_platform returns
\* "Custom Tracking", except for the path /gtm.js (alone or followed by a
\* query string), which is labelled "GA4" on any host.
C11_FallbackUnlessGtmScript ==
    FallbackBranch =>
        platform = IF GtmScriptPath(flow) THEN "GA4" ELSE "Custom Tracking"

\* the GTM script path on a host of no host table was labelled GA4
C11_Witness ==
    /\ FallbackBranch
    /\ GtmScriptPath(flow)
    /\ platform = "GA4"

\* a response hook call on a request that is not a static asset
NonStaticResponse == op = "response" /\ ~_is_static_asset(RequestPath(flow))

\* the status events among the events of the last hook call
StatusEventsOf(events) ==
    SelectSeq(events, LAMBDA e : e.type \in {"warning", "request_status_update"})

\* the type of the one status event a status code calls for, "" for none
StatusClass(status_code) ==
    IF status_code >= 400 THEN "warning"
    ELSE IF status_code \in {200, 204, 302} THEN "request_status_update"
    ELSE ""

\* the types of a list of events
TypesOf(events) == [i \in DOMAIN events |-> events[i].type]

\* C12: for every non-static response at most one status event is emitted: a
\* failure event (warning / tracking_request_failed) exactly when the status is
\* 400 or more, a success event (request_status_update) exactly when the status
\* is 200, 204 or 302, and none for any other status code.
C12_OneStatusEventByClass ==
    NonStaticResponse =>
        TypesOf(StatusEventsOf(emitted)) =
            IF StatusClass(resp.status_code) = "" THEN <<>>
            ELSE <<StatusClass(resp.status_code)>>

\* C12, for the calls of the response hook that return: the classification
\* above holds whenever no exception leaves the hook.
C12_StatusClassWhenHookReturns == escaped = "" => C12_OneStatusEventByClass

\* C12: a 503 response to a request whose body cannot be decoded leaves the hook
\* with ValueError and no status event.
C12_FailingInput ==
    /\ NonStaticResponse
    /\ resp.status_code = 503
    /\ HasContent(flow) /\ ~flow.body.decodable
    /\ escaped = "ValueError"
    /\ StatusEventsOf(emitted) = <<>>

\* the last response delivers a script: by its content type, or by the path
\* of its request
JavaScriptResponse ==
    \/ Strip(Split(Lower(resp.content_type), ";")[1]) \in JS_CONTENT_TYPES
    \/ EndsWith(RequestPath(flow), ".js")
    \/ \E pattern \in JS_PATH_PATTERNS : Contains(RequestPath(flow), pattern)

\* the last hook call emitted an event of this type and name
EmittedNamed(type, event) ==
    \E i \in DOMAIN emitted : emitted[i].type = type /\ emitted[i].event = event

\* the last hook call emitted a success event of this name with success = true
SuccessNamed(event) ==
    \E i \in DOMAIN emitted :
        /\ emitted[i].type = "request_status_update"
        /\ emitted[i].event = event
        /\ emitted[i].success

RequestPhasesOf(f) == {e \in request_phase : e.flow = f}

\* C14: every response-side status event references a request-side fingerprint
\* that was already emitted in a request-side event during the request phase of
\* the same flow, in every order of request and response hooks over the flows.
C14_StatusReferencesRequestEvent ==
    (op = "response" /\ RequestPhasesOf(flow) # {}) =>
        \A i \in DOMAIN StatusEventsOf(emitted) :
            \E e \in RequestPhasesOf(flow) :
                StatusEventsOf(emitted)[i].request_hash \in e.hashes

\* C14: the request phase of a flow logged no event, and the response phase of
\* the same flow logs a status event with a fingerprint
C14_FailingInput ==
    /\ op = "response"
    /\ RequestPhasesOf(flow) = {RequestPhase(flow, <<>>)}
    /\ StatusEventsOf(emitted) # <<>>
    /\ flow.host = "www.shop.example"

\* the digest input of flow f: its method, its url and its body text
DigestInput(f) == f.method \o "|" \o RequestUrl(f) \o "|" \o BodyText(f)

\* C15: the fingerprint is a function of (method, url, body) only: every
\* request-side event of a flow (every sub-event of a batch included) carries
\* the digest of that flow's method, url and body, the value the response hook
\* recomputes for the flow equals the request_hash of every event its request
\* phase logged, and the request phases of two flows with the same method and
\* url but different bodies carry different digest inputs.
C15_FingerprintOfMethodUrlBody ==
    /\ op = "request" =>
         \A i \in DOMAIN emitted : emitted[i].request_hash = DigestInput(flow)
    /\ op = "response" =>
         \A i \in DOMAIN StatusEventsOf(emitted) :
             /\ StatusEventsOf(emitted)[i].request_hash = DigestInput(flow)
             /\ \A e \in RequestPhasesOf(flow) :
                    e.hashes \subseteq {StatusEventsOf(emitted)[i].request_hash}
    /\ \A e1, e2 \in request_phase :
         (/\ e1.flow.method = e2.flow.method
          /\ RequestUrl(e1.flow) = RequestUrl(e2.flow)
          /\ BodyText(e1.flow) # BodyText(e2.flow)) => e1.hashes \cap e2.hashes = {}

\* a batch of two events was logged for a flow, and its response is correlated
\* with the same fingerprint; another flow with the same method and url and
\* another body went through its request phase too
C15_Witness ==
    /\ op = "request" /\ Len(emitted) = 2
    /\ emitted[1].request_hash = emitted[2].request_hash
    /\ \E e \in request_phase :
         /\ e.flow # flow
         /\ e.flow.method = flow.method
         /\ RequestUrl(e.flow) = RequestUrl(flow)
         /\ e.hashes # {}

\* the response hook recomputed the fingerprint of a flow whose request phase
\* logged events
C15_Correlated ==
    /\ op = "response" /\ StatusEventsOf(emitted) # <<>>
    /\ \E e \in RequestPhasesOf(flow) : e.hashes # {}

\* the last operation was a call of the request hook that passed the tracking
\* gate: detect_platform was reached and returned
PassedGate == op = "request" /\ platform # PyNone

\* flow f labelled p carries a batched GA4 JSON body
IsBatch(f, p) ==
    /\ p = "GA4" /\ f.method # "GET" /\ f.body.kind = "json"
    /\ f.body.json.t = "obj"
    /\ HasKey(f.body.json, "events")
    /\ Field(f.body.json, "events").t = "arr"

\* the elements of the events array of a batched flow
BatchOf(f) == Field(f.body.json, "events").vals

\* events are request-side events, one per element of the batch, in order
OnePerElement(events, batch) ==
    /\ Len(events) = Len(batch)
    /\ \A i \in DOMAIN events :
         /\ events[i].type \in {"marketing_pixel_event", "custom_tracking"}
         /\ (batch[i].t = "obj" /\ HasKey(batch[i], "name")) =>
                events[i].raw_data["en"] = PyStr(Field(batch[i], "name"))

\* C16: each request that passes the tracking gate produces exactly one
\* request-side event (marketing_pixel_event or custom_tracking), or exactly
\* one per element of the events array of a batched GA4 JSON body, in array
\* order.
C16_OneEventPerRequestOrElement ==
    PassedGate =>
        IF IsBatch(flow, platform) THEN OnePerElement(emitted, BatchOf(flow))
        ELSE /\ Len(emitted) = 1
             /\ emitted[1].type \in {"marketing_pixel_event", "custom_tracking"}

\* C16, for the requests processed without a PARSE_ERROR: one event, or one
\* per element of the batch in array order.
C16_OneEventUnlessParseError == errors = <<>> => C16_OneEventPerRequestOrElement

\* C16: the second element of a batch of two is no object: PARSE_ERROR is
\* logged and no event at all, not even for the first element
C16_FailingInput ==
    /\ PassedGate /\ IsBatch(flow, platform)
    /\ Len(BatchOf(flow)) = 2
    /\ emitted = <<>>
    /\ errors # <<>>

\* a batch of two events logged in array order
C16_BatchLogged ==
    /\ PassedGate /\ IsBatch(flow, platform)
    /\ Len(emitted) = 2 /\ emitted[1].event # emitted[2].event

\* the parameter maps process_request hands to the strategies for the last flow
Handed == _extract_request_data(flow, platform)

\* parameter map data carries the path, host and url of flow f
CarriesRequestOf(data, f) ==
    /\ {"_request_path", "_request_host", "_request_url"} \subseteq DOMAIN data
    /\ data["_request_path"] = RequestPath(f)
    /\ data["_request_host"] = f.host
    /\ data["_request_url"] = RequestUrl(f)

\* C17: every parameter map handed to an extraction strategy carries, under
\* the three synthetic keys _request_path, _request_host and _request_url, the
\* actual path, host and full URL of the request, whatever keys the query
\* string or the body contain.
C17_SyntheticKeysActual ==
    (PassedGate /\ Handed.exc = "") =>
        \A i \in DOMAIN Handed.val : CarriesRequestOf(Handed.val[i], flow)

\* C17, for requests without a body: a query-string key named like a
\* synthetic key does not replace it.
C17_QueryCannotOverride ==
    (PassedGate /\ Handed.exc = "" /\ ~HasContent(flow)) =>
        \A i \in DOMAIN Handed.val : CarriesRequestOf(Handed.val[i], flow)

\* C17: a form body with a key _request_path replaces the actual path in the
\* map handed to the strategy
C17_FailingInput ==
    /\ PassedGate /\ Handed.exc = ""
    /\ flow.body.raw = "_request_path=spoof&id=1&ev=View&_request_id=7"
    /\ Handed.val[1]["_request_path"] = "spoof"
    /\ Handed.val[1]["_request_url"] = RequestUrl(flow)
    /\ Len(emitted) = 1

\* clean is data without the keys that start with _request_, every other key
\* kept with its value
StrippedOf(clean, data) ==
    /\ DOMAIN clean = {k \in DOMAIN data : ~StartsWith(k, "_request_")}
    /\ \A k \in DOMAIN clean : clean[k] = data[k]

\* C18: the raw_data map in the metadata of every emitted request-side event
\* contains the request's parameters with every internal-only key (prefix
\* _request_) removed, and no other parameter removed or changed.
C18_RawDataIsParamsWithoutInternalKeys ==
    (PassedGate /\ Handed.exc = "") =>
        /\ \A i \in DOMAIN emitted : StrippedOf(emitted[i].raw_data, Handed.val[i])
        /\ (~HasContent(flow) /\ emitted # <<>>) =>
               StrippedOf(emitted[1].raw_data, QueryDict(flow))

C18_Witness ==
    /\ PassedGate /\ Handed.exc = ""
    /\ Len(emitted) = 1
    /\ "_request_id" \in DOMAIN Handed.val[1]
    /\ DOMAIN emitted[1].raw_data = {"id", "ev"}

\* the body of flow f is there and fails to parse: its bytes cannot be
\* decoded, or its text opens like JSON and is none
BodyFailsToParse(f) ==
    /\ HasContent(f) /\ f.method # "GET"
    /\ \/ ~f.body.decodable
       \/ f.body.kind = "raw" /\ StartsWith(f.body.raw, "{")

\* the query-string result for flow f: the query parameters and the synthetic
\* keys
QueryOnly(f) == Update(QueryDict(f), RequestMetadata(f))

\* _extract_request_data raised nothing and returned the query-string result
ReturnsQueryOnly == Handed.exc = "" /\ Handed.val = <<QueryOnly(flow)>>

\* C19: when the body of a body-bearing request fails to parse,
\* _extract_request_data raises nothing and returns exactly the query-string
\* result (query parameters plus the synthetic keys), with no key derived from
\* the unparsable body.
C19_ParseFailureGivesQueryOnly ==
    (PassedGate /\ BodyFailsToParse(flow)) => ReturnsQueryOnly

\* C19, for a decodable body that is no JSON and holds no key=value piece: the
\* query-string result is returned and nothing is raised.
C19_QueryOnlyWhenNoFormPair ==
    (PassedGate /\ BodyFailsToParse(flow) /\ flow.body.decodable
       /\ ~Contains(flow.body.raw, "=")) => ReturnsQueryOnly

\* C19: the body cannot be decoded and _extract_request_data raises ValueError;
\* the request logs PARSE_ERROR and no event
C19_FailingInput ==
    /\ PassedGate /\ BodyFailsToParse(flow) /\ ~flow.body.decodable
    /\ Handed.exc = "ValueError"
    /\ emitted = <<>> /\ errors = <<"PARSE_ERROR: ValueError">>

\* a body that opens like JSON and is none is read as form fields
C19_FormKeyFromBody ==
    /\ PassedGate /\ BodyFailsToParse(flow) /\ flow.body.decodable
    /\ Handed.exc = ""
    /\ DOMAIN Handed.val[1] \ DOMAIN QueryOnly(flow) = {"ev"}

\* a body that opens like JSON and is none, without form fields
C19_QueryOnlyReturned ==
    /\ PassedGate /\ BodyFailsToParse(flow) /\ flow.body.raw = "{bad"
    /\ ReturnsQueryOnly
    /\ Len(emitted) = 1

\* the JSON value the flattener was last called on
Flattened == flow.body.json

\* the number of leaves of a JSON value
RECURSIVE NumLeaves(_)
NumLeaves(v) ==
    IF v.t \in {"obj", "arr"}
    THEN LET S[i \in 0..Len(v.vals)] ==
                 IF i = 0 THEN 0 ELSE S[i - 1] + NumLeaves(v.vals[i])
         IN  S[Len(v.vals)]
    ELSE 1

\* every leaf of v, v being at path, is in p under its path with its text, a
\* null leaf with the empty string.  At the top level an element of a list
\* is item_<i> and a bare leaf is value.
RECURSIVE LeavesKeyed(_, _, _)
LeavesKeyed(v, path, p) ==
    CASE v.t = "obj" ->
           \A i \in DOMAIN v.vals :
               LeavesKeyed(v.vals[i],
                           IF path = "" THEN v.keys[i]
                           ELSE path \o "." \o v.keys[i], p)
      [] v.t = "arr" ->
           \A i \in DOMAIN v.vals :
               LeavesKeyed(v.vals[i],
                           IF path = "" THEN "item_" \o Dec(i - 1)
                           ELSE path \o "[" \o Dec(i - 1) \o "]", p)
      [] OTHER ->
           /\ (IF path = "" THEN "value" ELSE path) \in DOMAIN p
           /\ p[IF path = "" THEN "value" ELSE path] =
                  IF v.t = "null" THEN "" ELSE v.s

\* {"a": {"b": [1, 2]}}
NestedExample ==
    JObj(<<"a">>, <<JObj(<<"b">>, <<JArr(<<JNum("1"), JNum("2")>>)>>)>>)

\* C20: _flatten_json_to_params maps every leaf of a nested JSON value to one
\* string parameter keyed by its dotted/bracketed path (parent.child,
\* parent[i]): {"a": {"b": [1, 2]}} yields a.b[0] -> "1" and a.b[1] -> "2",
\* and a null leaf becomes the empty string.
C20_EveryLeafOneParameter ==
    op = "flatten" =>
        /\ LeavesKeyed(Flattened, "", params)
        /\ Cardinality(DOMAIN params) = NumLeaves(Flattened)
        /\ Flattened = NestedExample =>
               params = ("a.b[0]" :> "1") @@ ("a.b[1]" :> "2")

C20_Witness ==
    /\ op = "flatten"
    /\ Flattened = NestedExample
    /\ params["a.b[0]"] = "1" /\ params["a.b[1]"] = "2"

\* a null leaf in a nested list is flattened to the empty string
C20_NullLeaf ==
    /\ op = "flatten"
    /\ Flattened = JObj(<<"a">>, <<JObj(<<"b">>, <<JArr(<<JNull, JStr("x")>>)>>)>>)
    /\ params = ("a.b[0]" :> "") @@ ("a.b[1]" :> "x")

\* the cookie events among the events of the last hook call
CookieEventsOf(events) == SelectSeq(events, LAMBDA e : e.type = "cookie")

\* the attributes of a Set-Cookie header: its ';'-separated parts after the
\* name=value part, stripped
AttributesOf(cookie_header) ==
    {Strip(Split(cookie_header, ";")[i]) : i \in 2..Len(Split(cookie_header, ";"))}

\* the value of the SameSite attribute, "None" when there is none
SameSiteOf(cookie_header) ==
    IF \E a \in AttributesOf(cookie_header) : StartsWith(Lower(a), "samesite=")
    THEN LET a == CHOOSE a \in AttributesOf(cookie_header) :
                      StartsWith(Lower(a), "samesite=")
         IN  SubSeq(a, 10, Len(a))
    ELSE "None"

\* record c describes header h by its attributes
ByAttributes(c, h) ==
    /\ c.http_only = ("HttpOnly" \in AttributesOf(h))
    /\ c.secure = ("Secure" \in AttributesOf(h))
    /\ Lower(c.same_site) = Lower(SameSiteOf(h))

\* C21: each Set-Cookie header on a relevant host yields one cookie record
\* whose http_only and secure flags are true exactly when HttpOnly,
\* respectively Secure, is one of the header's ';'-separated attributes (not
\* part of the cookie's name or value), and whose same_site is the SameSite
\* attribute's value (compared without regard to case) or "None" when absent.
C21_CookieFlagsFromAttributes ==
    (op = "response" /\ escaped = "" /\ resp.set_cookie # <<>>
       /\ _is_relevant_domain(flow.host)) =>
        /\ Len(CookieEventsOf(emitted)) = 1
        /\ Len(CookieEventsOf(emitted)[1].detailed_cookies) = Len(resp.set_cookie)
        /\ \A i \in DOMAIN resp.set_cookie :
             ByAttributes(CookieEventsOf(emitted)[1].detailed_cookies[i],
                          resp.set_cookie[i])

\* C21, for headers whose name=value part spells neither HttpOnly nor Secure.
C21_FlagsWhenNameValueClean ==
    (op = "response" /\ escaped = "" /\ resp.set_cookie # <<>>
       /\ _is_relevant_domain(flow.host)) =>
        \A i \in DOMAIN resp.set_cookie :
            (/\ ~Contains(Split(resp.set_cookie[i], ";")[1], "HttpOnly")
             /\ ~Contains(Split(resp.set_cookie[i], ";")[1], "Secure")) =>
                ByAttributes(CookieEventsOf(emitted)[1].detailed_cookies[i],
                             resp.set_cookie[i])

\* C21: a cookie named HttpOnly, without attributes, is recorded as http_only
C21_FailingInput ==
    /\ op = "response" /\ escaped = ""
    /\ Len(CookieEventsOf(emitted)) = 1
    /\ Len(resp.set_cookie) = 2 /\ resp.set_cookie[2] = "HttpOnly=1"
    /\ CookieEventsOf(emitted)[1].detailed_cookies[2].name = "HttpOnly"
    /\ CookieEventsOf(emitted)[1].detailed_cookies[2].http_only

\* the header sid=abc123; HttpOnly; Secure; SameSite=Strict on a relevant host
C21_SpecExample ==
    /\ op = "response" /\ escaped = ""
    /\ resp.set_cookie = <<"sid=abc123; HttpOnly; Secure; SameSite=Strict">>
    /\ Len(CookieEventsOf(emitted)) = 1
    /\ CookieEventsOf(emitted)[1].detailed_cookies[1].http_only
    /\ CookieEventsOf(emitted)[1].detailed_cookies[1].secure
    /\ CookieEventsOf(emitted)[1].detailed_cookies[1].same_site = "Strict"

\* key k is pr followed by digits only
NamedPrDigits(k) ==
    /\ Len(k) > 2 /\ SubSeq(k, 1, 2) = "pr"
    /\ \A j \in 3..Len(k) : SubSeq(k, j, j) \in Digits

\* the '~'-separated tokens of a product value
TokensOf(v) == Split(Unquote(v), "~")

\* the tokens of v that carry a value under the 2-character prefix pf
TokensWith(v, pf) ==
    {j \in DOMAIN TokensOf(v) :
        Len(TokensOf(v)[j]) > 2 /\ SubSeq(TokensOf(v)[j], 1, 2) = pf}

\* the product a value describes: for every known prefix with a token, the
\* field of that prefix with the value of the last such token
ProductOf(v) ==
    [f \in {ProductFields[pf] : pf \in {q \in DOMAIN ProductFields :
                                           TokensWith(v, q) # {}}} |->
        LET pf == CHOOSE q \in DOMAIN ProductFields : ProductFields[q] = f
            j == CHOOSE j \in TokensWith(v, pf) :
                     \A k \in TokensWith(v, pf) : k <= j
        IN  SubSeq(TokensOf(v)[j], 3, Len(TokensOf(v)[j]))]

\* the parameters of the last call that describe a product
ProductParams ==
    SelectSeq(flow.query,
              LAMBDA it : NamedPrDigits(it[1]) /\ DOMAIN ProductOf(it[2]) # {})

\* C22: parse_product_data decodes every parameter named pr<digits> by
\* splitting on '~' and pairing each token's 2-character prefix (nm, id, pr,
\* br, ca, qt) with its value: pr1 = "nmShoe~id123~pr49.99" yields exactly one
\* product {name: Shoe, id: 123, price: 49.99}; tokens with an unknown prefix
\* are ignored (a parameter without any known token yields no product).
C22_ProductsFromPrParameters ==
    op = "products" =>
        /\ returned = [i \in DOMAIN ProductParams |-> ProductOf(ProductParams[i][2])]
        /\ flow.query = <<<<"pr1", "nmShoe~id123~pr49.99">>>> =>
               returned = <<[name |-> "Shoe", id |-> "123", price |-> "49.99"]>>

C22_Witness ==
    /\ op = "products"
    /\ flow.query = <<<<"pr1", "nmShoe~id123~pr49.99">>>>
    /\ Len(returned) = 1
    /\ returned[1].name = "Shoe" /\ returned[1].id = "123"
    /\ returned[1].price = "49.99"

\* a token with an unknown prefix is ignored, next to a parameter that is not
\* named pr<digits>
C22_UnknownPrefixIgnored ==
    /\ op = "products"
    /\ flow.query = <<<<"pra", "nmShoe">>, <<"pr12", "xxJunk~idA1">>>>
    /\ returned = <<[id |-> "A1"]>>

\* C23: a repeat detect_platform call on a host and path already in the cache
\* returns the first verdict stored for that key, whatever the parameters of
\* the later request; a cached label is never overwritten by a later call.
C23_FirstVerdictKept ==
    [][/\ \A k \in DOMAIN platform_cache :
            /\ k \in DOMAIN platform_cache'
            /\ platform_cache'[k] = platform_cache[k]
       /\ (/\ op' \in {"request", "response"}
           /\ platform' # PyNone
           /\ CacheKey(flow'.host, RequestPath(flow')) \in DOMAIN platform_cache) =>
              platform' = platform_cache[CacheKey(flow'.host, RequestPath(flow'))]]_vars

\* a second request on a cached host and path, with a body the detector would
\* label sGTM on an empty cache, is given the first verdict, and the cache
\* still holds it
C23_Witness ==
    /\ op = "request" /\ ncalls = 2
    /\ platform = "Custom Tracking"
    /\ FreshLabel(flow).exc = ""
    /\ FreshLabel(flow).val[1] = "sGTM"
    /\ platform_cache[CacheKey(flow.host, RequestPath(flow))] = "Custom Tracking"

\* the keys the scorers look for
SignalKeys ==
    Range(ga4_params) \cup Range(consent_params) \cup Range(eventParams)
      \cup Range(trackingParams) \cup Range(sessionParams)
      \cup Range(valueParams) \cup Range(ecommerceParams)
      \cup Range(timestampParams) \cup Range(serverGtmParams)
      \cup Range(_get_platform_key_params) \cup {"tid"}

\* the parameter map the detector scores for the last flow
ScoredParams == _get_all_params(flow)

\* C24: the detector scores the same flattened parameter map that the
\* Parameter Extractor builds for the handlers: for every request, a key
\* counts as a scoring signal exactly when that key is present in the
\* parameters given to the extraction strategy (synthetic keys aside).
C24_DetectorScoresHandedParams ==
    (PassedGate /\ Handed.exc = "" /\ ScoredParams.exc = "") =>
        \A i \in DOMAIN Handed.val : \A k \in SignalKeys :
            k \in DOMAIN ScoredParams.val <=> k \in DOMAIN Handed.val[i]

\* C24, for requests without a body: both maps are the query parameters.
C24_SameKeysWithoutBody ==
    (PassedGate /\ Handed.exc = "" /\ ScoredParams.exc = "" /\ ~HasContent(flow)) =>
        \A i \in DOMAIN Handed.val :
            DOMAIN ScoredParams.val =
                {k \in DOMAIN Handed.val[i] : ~StartsWith(k, "_request_")}

\* C24: a GA4 JSON batch: the strategy is handed the event name under en,
\* which the detector did not see in the body
C24_FailingInput ==
    /\ PassedGate /\ Handed.exc = "" /\ ScoredParams.exc = ""
    /\ IsBatch(flow, platform)
    /\ Len(Handed.val) = 2
    /\ "en" \in DOMAIN Handed.val[1]
    /\ "en" \notin DOMAIN ScoredParams.val

\* C24: a body that is no JSON, sent as application/json: the detector scores
\* the query parameters only, the strategy is handed the form key ev too
C24_FormKeyUnscored ==
    /\ PassedGate /\ Handed.exc = "" /\ ScoredParams.exc = ""
    /\ flow.body.raw = "{bad&ev=View"
    /\ "ev" \in DOMAIN Handed.val[1]
    /\ "ev" \notin DOMAIN ScoredParams.val

\* the cache key of a call in flight
KeyOf(c) == CacheKey(c.flow.host, RequestPath(c.flow))

\* C25: when flows are dispatched concurrently, the check-then-write sequence
\* of detect_platform on the shared detection cache is mutually exclusive: two
\* concurrent calls for the same host and path return the same label and the
\* cache entry is written with one label only.
C25_CheckThenWriteExclusive ==
    \A t1, t2 \in Threads :
        (/\ calls[t1].pc = "done" /\ calls[t2].pc = "done"
         /\ KeyOf(calls[t1]) = KeyOf(calls[t2])) =>
            calls[t1].label = calls[t2].label

\* C25: no two threads are between the cache check and the cache write of
\* the same key
C25_NoTwoThreadsPastTheCheck ==
    \A t1, t2 \in Threads :
        (/\ calls[t1].pc = "checked" /\ calls[t2].pc = "checked"
         /\ KeyOf(calls[t1]) = KeyOf(calls[t2])) => t1 = t2

\* C25: two calls for the same host and path have returned different labels,
\* and the cache entry, written twice, holds the label of the later write
C25_FailingInput ==
    /\ calls[1].pc = "done" /\ calls[2].pc = "done"
    /\ KeyOf(calls[1]) = KeyOf(calls[2])
    /\ calls[1].label = "sGTM" /\ calls[2].label = "Custom Tracking"
    /\ platform_cache[KeyOf(calls[1])] = "Custom Tracking"

\* the platforms the factory gives the default strategy: those of the
\* registry without a strategy of their own, and those outside the registry
DefaultStrategyPlatforms == {"TikTok", "Custom Tracking", "Server-side GTM"}

\* the identifier keys of a platform with the default strategy
KeysOf(p) == IF p \in DOMAIN PLATFORMS THEN PLATFORMS[p] ELSE DefaultConfig(p)

\* the event name the default strategy is to return for data: "Unknown" when
\* there is no non-empty value under the event-name key
NameOrUnknown(p, data) ==
    IF Get(data, KeysOf(p).event_name_key, "") = "" THEN "Unknown"
    ELSE data[KeysOf(p).event_name_key]

\* the one event the builder logged goes back to identifiers (id, name)
BuiltFrom(id, name) ==
    /\ escaped = "" /\ Len(emitted) = 1
    /\ IF name = "Unknown" /\ id = ""
       THEN emitted[1].type = "custom_tracking"
       ELSE /\ emitted[1].type = "marketing_pixel_event"
            /\ emitted[1].event = name
            /\ emitted[1].pixel_id = id
            /\ emitted[1].event_type = "Standard Event"

\* C26: the default strategy returns eventName = "Unknown" whenever params
\* holds no non-empty value under the platform's event-name key (key absent or
\* value empty), primaryId = params[primaryIdKey], and eventType = "Standard
\* Event".
C26_DefaultNameUnknownWhenEmpty ==
    (op = "build" /\ platform \in DefaultStrategyPlatforms) =>
        BuiltFrom(Get(params, KeysOf(platform).pixel_id_key, ""),
                  NameOrUnknown(platform, params))

\* C26, when the event-name key is absent or holds a non-empty value.
C26_DefaultNameUnknownWhenAbsent ==
    (op = "build" /\ platform \in DefaultStrategyPlatforms
       /\ Get(params, KeysOf(platform).event_name_key, "x") # "") =>
        BuiltFrom(Get(params, KeysOf(platform).pixel_id_key, ""),
                  NameOrUnknown(platform, params))

\* C26: the event-name key is there with an empty value and there is no
\* primary id: the event is logged under the empty name, not as Unknown
C26_FailingInput ==
    /\ op = "build" /\ platform = "TikTok"
    /\ params = ("event" :> "") @@ ("event_name" :> "")
    /\ Len(emitted) = 1
    /\ emitted[1].type = "marketing_pixel_event"
    /\ emitted[1].event = "" /\ emitted[1].pixel_id = ""

\* flow f is a legacy activity-pixel request: its path carries ';key=value'
\* segments after /activity
LegacyActivity(f) == f.host = "ad.doubleclick.net" /\ StartsWith(f.base, "/activity;")

\* the ';key=value' segments of the path of a legacy activity-pixel request
SegmentsOf(f) ==
    PairsDict(SemicolonPairs(Split(SubSeq(f.base, Len("/activity;") + 1, Len(f.base)), ";"), 1))

\* the one event logged for the last request carries identifiers (id, name)
LoggedAs(id, name) ==
    /\ Len(emitted) = 1
    /\ emitted[1].type = "marketing_pixel_event"
    /\ emitted[1].pixel_id = id
    /\ emitted[1].event = name

\* C27: for a legacy activity-pixel request whose path carries ';key=value'
\* segments, the DoubleClick strategy returns an event name synthesized from
\* the activity type, category and order id found in the path (when present),
\* together with the source id as primary identifier.
C27_ActivityNameSynthesized ==
    (PassedGate /\ platform = "DoubleClick" /\ LegacyActivity(flow)) =>
        LoggedAs(Get(SegmentsOf(flow), "src", "Unknown"), ActivityInfo(SegmentsOf(flow))[2])

\* C27, for the primary identifier alone: the source id of the path, under the
\* fixed event name the strategy returns in place of the synthesized one.
C27_SourceIdIsPrimary ==
    (PassedGate /\ platform = "DoubleClick" /\ LegacyActivity(flow)) =>
        LoggedAs(Get(SegmentsOf(flow), "src", "Unknown"), "Floodlight Activity")

\* C27: a path with source id, type, category and order id is logged under the
\* fixed name, the name synthesized from its segments being dropped
C27_FailingInput ==
    /\ PassedGate /\ platform = "DoubleClick"
    /\ flow.base = "/activity;src=1;type=a;cat=b;ord=2"
    /\ ActivityInfo(SegmentsOf(flow)) = <<"1", "Floodlight_a_b_ord2">>
    /\ LoggedAs("1", "Floodlight Activity")

\* the parameters of a request that match the primary-id or event-name key of
\* a configured platform
KeyParamsOf(p) ==
    {k \in DOMAIN p : \E n \in Range(PlatformNames) :
        k \in {PLATFORMS[n].pixel_id_key, PLATFORMS[n].event_name_key}}

\* the last rule of the basic scorer fires on parameter map p
LastRuleFires(p) == _count_matching_params(p, _get_platform_key_params) >= 2

\* one of the rules of the basic scorer before the last fires on p
OtherBasicSignal(p) ==
    \/ _count_matching_params(p, ga4_params) >= 2
    \/ _has_any_params(p, eventParams)
    \/ _count_matching_params(p, trackingParams) >= 2
    \/ (_has_any_params(p, consent_params) /\ _has_any_params(p, serverGtmParams))
    \/ (_has_any_params(p, sessionParams) /\ _has_any_params(p, valueParams))
    \/ _count_matching_params(p, ecommerceParams) >= 2

\* C28: the basic scorer's last rule fires only when at least 2 distinct
\* parameters of the request match a configured platform's primary-id or
\* event-name key; a request with a single such parameter and no other basic
\* signal is reported as not tracking.
C28_LastRuleNeedsTwoParams ==
    op = "score" =>
        /\ LastRuleFires(params) => Cardinality(KeyParamsOf(params)) >= 2
        /\ (Cardinality(KeyParamsOf(params)) = 1 /\ ~OtherBasicSignal(params)) =>
               ~_has_tracking_indicators(params)

\* C28, for a single matching parameter whose key one platform alone uses: the
\* request is reported as not tracking.
C28_SingleUnsharedKeyRejected ==
    (op = "score" /\ ~OtherBasicSignal(params)
       /\ Cardinality(KeyParamsOf(params)) = 1
       /\ \A k \in KeyParamsOf(params) :
            _count_matching_params(k :> "", _get_platform_key_params) = 1) =>
        ~_has_tracking_indicators(params)

\* C28: the one parameter tid, the primary-id key of three platforms, and no
\* other basic signal: the last rule counts it three times and fires
C28_FailingInput ==
    /\ op = "score" /\ params = "tid" :> "G-1"
    /\ ~OtherBasicSignal(params)
    /\ _count_matching_params(params, _get_platform_key_params) = 3
    /\ _has_tracking_indicators(params)

\* the one parameter gtm, the key of one platform alone, is rejected
C28_UnsharedExample ==
    /\ op = "score" /\ params = "gtm" :> "x"
    /\ ~_has_tracking_indicators(params)

\* the ordered prefix rules of a platform as <<prefix, type, short code>>
PrefixRulesOf(p) ==
    CASE p = "GA4" -> <<<<"G-", "GA4 Measurement ID", "GA4">>,
                        <<"UA-", "Universal Analytics ID", "UA">>,
                        <<"CCM-", "GA4 Consent Mode", "CCM">>>>
      [] p = "Google Ads" -> <<<<"AW-", "Google Ads Conversion ID", "Ads">>,
                               <<"G-", "GA4 -> Google Ads", "GA4->Ads">>>>
      [] OTHER -> <<>>

\* the indices of the prefix rules of p that id matches
MatchingRules(id, p) ==
    {i \in DOMAIN PrefixRulesOf(p) : StartsWith(id, PrefixRulesOf(p)[i][1])}

\* the first prefix rule of p that id matches
FirstRule(id, p) ==
    PrefixRulesOf(p)[CHOOSE i \in MatchingRules(id, p) :
                         \A j \in MatchingRules(id, p) : i <= j]

\* the platforms formatted by the first three letters of their name
FixedPlatforms == {"Amazon", "Criteo", "Reddit", "Quora", "Outbrain", "Taboola"}

\* what the steps after the prefix rules give for a non-empty id: predicate
\* rule, fixed platform list, generic format
AfterPrefixRules(id, p) ==
    IF PrefixRulesOf(p) = <<>> /\ PLATFORM_ID_FORMATTERS(p, id) # <<>>
    THEN [id |-> id, type |-> PLATFORM_ID_FORMATTERS(p, id)[1],
          formatted |-> id \o " (" \o PLATFORM_ID_FORMATTERS(p, id)[2] \o ")"]
    ELSE IF p \in FixedPlatforms
    THEN [id |-> id, type |-> p \o " Pixel ID",
          formatted |-> id \o " (" \o Upper(SubSeq(p, 1, 3)) \o ")"]
    ELSE [id |-> id, type |-> "Pixel/Property ID",
          formatted |-> id \o " (" \o p \o ")"]

\* the rules in the order stated: empty id, first matching prefix rule, then
\* the steps after the prefix rules
StatedFormat(id, p) ==
    IF id = "" THEN [id |-> "", type |-> "", formatted |-> ""]
    ELSE IF MatchingRules(id, p) # {}
    THEN [id |-> id, type |-> FirstRule(id, p)[2],
          formatted |-> id \o " (" \o FirstRule(id, p)[3] \o ")"]
    ELSE AfterPrefixRules(id, p)

\* the id of a GA4 request that matches no prefix rule and is longer than 10
\* characters
ContainerId(id, p) == p = "GA4" /\ MatchingRules(id, p) = {} /\ Len(id) > 10

\* C29 as stated: _format_pixel_id applies its rules in order: an empty id
\* gives the all-empty result; otherwise the first matching prefix rule of the
\* platform wins and is formatted "<id> (<shortCode>)"; a failing prefix or
\* predicate rule falls through to the fixed-platform-list format and then to
\* the generic {type: "Pixel/Property ID", formatted: "<id> (<platform>)"}; for
\* every non-empty id the returned id equals the input.
C29_RulesInOrder ==
    op = "format" => returned = StatedFormat(params["pixel_id"], platform)

\* C29 as the code has it: the rules apply in the order stated and the
\* returned id equals the input, except that a GA4 id of more than 10
\* characters that matches no prefix rule does not fall through: it is
\* formatted "<id> (GTM-CCM)" with type "GTM Container (CCM)".
C29_RulesInOrderWithContainerId ==
    op = "format" =>
        /\ returned.id = params["pixel_id"]
        /\ returned =
             IF ContainerId(params["pixel_id"], platform)
             THEN [id |-> params["pixel_id"], type |-> "GTM Container (CCM)",
                   formatted |-> params["pixel_id"] \o " (GTM-CCM)"]
             ELSE StatedFormat(params["pixel_id"], platform)

\* a failing predicate rule on a platform of the fixed list falls through to
\* the format by the first three letters of the platform
C29_Witness ==
    /\ op = "format" /\ platform = "Taboola" /\ params["pixel_id"] = "1234"
    /\ returned = [id |-> "1234", type |-> "Taboola Pixel ID", formatted |-> "1234 (TAB)"]

\* a GA4 id of 12 characters without a known prefix is formatted as a
\* container id, where the rules as stated give the generic format
C29_ContainerIdExample ==
    /\ op = "format" /\ platform = "GA4" /\ params["pixel_id"] = "GTM-ABCDEFGH"
    /\ returned.formatted = "GTM-ABCDEFGH (GTM-CCM)"
    /\ StatedFormat("GTM-ABCDEFGH", "GA4").formatted = "GTM-ABCDEFGH (GA4)"

\* the last request is on a host of no platform's host table, is no static
\* asset, and the advanced scorer classifies its params as likely relay
LikelyRelay ==
    /\ op = "request"
    /\ flow.host \notin ALL_HOSTS
    /\ ~_is_static_asset(RequestPath(flow))
    /\ ScoredParams.exc = ""
    /\ _advanced_server_side_detection(ScoredParams.val).score >= 3

\* the request hook returned at the gate: no label, nothing logged, nothing
\* raised
DroppedAtGate ==
    /\ op = "request" /\ platform = PyNone
    /\ escaped = "" /\ emitted = <<>> /\ errors = <<>>

\* C30: every request on a host listed in no platform's host table whose params
\* the advanced scorer would classify as likely relay (score >= 3) also passes
\* the basic tracking gate of is_tracking_request, so process_request never
\* drops it before detect_platform runs.
C30_LikelyRelayPassesGate == LikelyRelay => ~DroppedAtGate

\* C30, for the likely-relay requests that carry an event-name-style parameter:
\* they pass the gate and are labelled.
C30_RelayWithEventParamPassesGate ==
    (LikelyRelay /\ _has_any_params(ScoredParams.val, eventParams)) => ~DroppedAtGate

\* C30: a request on the relay host whose one parameter is a container id
\* scores 6 and is dropped at the gate: no label, no event
C30_FailingInput ==
    /\ op = "request"
    /\ flow = Get_(Relay, "/x", <<<<"gtm", "abcdefghijkl">>>>)
    /\ _advanced_server_side_detection(ScoredParams.val).score = 6
    /\ ~is_tracking_request(flow).val
    /\ DroppedAtGate

\* a likely-relay request with an event parameter labelled by the scorer
C30_RelayLabelled ==
    /\ LikelyRelay /\ _has_any_params(ScoredParams.val, eventParams)
    /\ platform = "sGTM"

\* on the scorer alone: a consent parameter and a value parameter score 3
\* (likely relay) and no rule of the basic scorer fires, whatever the keys of
\* the platform table
C30_ScoreExample ==
    /\ op = "score" /\ DOMAIN params = {"gcs", "value"}
    /\ scored.score = 3 /\ scored.platform = "sGTM"
    /\ ~OtherBasicSignal(params) /\ KeyParamsOf(params) = {}
    /\ ~_has_tracking_indicators(params)

=============================================================================
